---------------------------- MODULE Spec2Model ----------------------------
(***************************************************************************)
(* BizFlow: the WhatsApp conversational flow engine of src/main.py.        *)
(*                                                                         *)
(* The model has two layers:                                               *)
(*   - text: strings are sequences of one-character strings; the helpers   *)
(*     of WhatsAppBot (clean_phone, parse_booking, _month_to_number) are   *)
(*     operators computed character by character, the regular expressions  *)
(*     of parse_booking are matched with Python's backtracking order;      *)
(*   - state: the rows of the businesses and bookings tables as committed  *)
(*     in the database, and one webhook request per worker process, each   *)
(*     with the row it read into its own session.                          *)
(***************************************************************************)
EXTENDS Integers, Sequences, FiniteSets, TLC

(***************************************************************************)
(* Text layer                                                              *)
(***************************************************************************)

Digits == <<"0", "1", "2", "3", "4", "5", "6", "7", "8", "9">>

LowerLetters ==
    <<"a", "b", "c", "d", "e", "f", "g", "h", "i", "j", "k", "l", "m",
      "n", "o", "p", "q", "r", "s", "t", "u", "v", "w", "x", "y", "z">>

UpperLetters ==
    <<"A", "B", "C", "D", "E", "F", "G", "H", "I", "J", "K", "L", "M",
      "N", "O", "P", "Q", "R", "S", "T", "U", "V", "W", "X", "Y", "Z">>

Range(s) == {s[i] : i \in 1..Len(s)}

DigitSet == Range(Digits)

LowerSet == Range(LowerLetters)

UpperSet == Range(UpperLetters)

\* the characters Python's \s and str.strip() treat as whitespace
Whitespace == {" ", "\t", "\n"}

IndexOf(s, c) == CHOOSE i \in 1..Len(s) : s[i] = c

DigitVal(c) == IndexOf(Digits, c) - 1

\* str.lower() / str.upper() on one character
LowerChar(c) == IF c \in UpperSet THEN LowerLetters[IndexOf(UpperLetters, c)] ELSE c

UpperChar(c) == IF c \in LowerSet THEN UpperLetters[IndexOf(LowerLetters, c)] ELSE c

\* str.lower()
Lower(s) == [i \in 1..Len(s) |-> LowerChar(s[i])]

SetMin(S) == CHOOSE x \in S : \A y \in S : x <= y

SetMax(S) == CHOOSE x \in S : \A y \in S : x >= y

\* str.strip(): drop leading and trailing whitespace
Strip(s) ==
    LET keep == {i \in 1..Len(s) : s[i] \notin Whitespace}
    IN  IF keep = {} THEN <<>> ELSE SubSeq(s, SetMin(keep), SetMax(keep))

\* str.title() : a letter is upper-cased when it starts a run of letters,
\* lower-cased otherwise
Title(s) ==
    [i \in 1..Len(s) |->
        IF i = 1 \/ (s[i-1] \notin LowerSet /\ s[i-1] \notin UpperSet)
        THEN UpperChar(s[i])
        ELSE LowerChar(s[i])]

\* str.zfill(2)
ZFill2(s) == IF Len(s) < 2 THEN <<"0">> \o s ELSE s

\* int(s) for a string of one or two decimal digits
IntOf(s) == IF Len(s) = 1 THEN DigitVal(s[1]) ELSE 10 * DigitVal(s[1]) + DigitVal(s[2])

\* f"{n:02d}" for 0 <= n <= 99, and f"{n}" above that
Fmt02(n) ==
    IF n < 100
    THEN <<Digits[(n \div 10) + 1], Digits[(n % 10) + 1]>>
    ELSE <<Digits[(n \div 100) + 1], Digits[((n \div 10) % 10) + 1], Digits[(n % 10) + 1]>>

\* `lit in text`
Contains(t, lit) ==
    \E i \in 1..Len(t) : i + Len(lit) - 1 <= Len(t) /\ SubSeq(t, i, i + Len(lit) - 1) = lit

(***************************************************************************)
(* clean_phone                                                             *)
(***************************************************************************)

IsPhoneChar(c) == c \in DigitSet \/ c = "+"

\* phone.replace("whatsapp:", "") then re.sub(r'[^\d+]', '', ...): every
\* character of the prefix is itself removed by the substitution, so the
\* result is the digits and '+' signs of the input, in order
clean_phone(phone) ==
    IF phone = <<>> THEN <<>>
    ELSE LET kept == SelectSeq(phone, IsPhoneChar)
         IN  IF Len(kept) = 10 THEN <<"9", "1">> \o kept ELSE kept


(***************************************************************************)
(* parse_booking: the regular expressions                                  *)
(*                                                                         *)
(* A pattern is a sequence of tokens. A token is a run of characters of a  *)
(* class, min to max of them, or an alternation of literals, possibly      *)
(* optional; cap names the group that captures what the token matched.     *)
(* A match attempt returns NoMatch or the groups of the first match in     *)
(* Python's backtracking order: greedy quantifiers try the longest         *)
(* repetition first, alternatives are tried from left to right, an         *)
(* optional group is tried present before absent. A group that did not     *)
(* take part in the match (None) is <<>>.                                  *)
(***************************************************************************)

NoMatch == [ok |-> FALSE]

NoGroups ==
    [ok |-> TRUE, day |-> <<>>, month |-> <<>>, weekday |-> <<>>,
     hour |-> <<>>, minute |-> <<>>, ampm |-> <<>>, name |-> <<>>]

CharAt(t, p) == IF p >= 1 /\ p <= Len(t) THEN t[p] ELSE ""

LitAt(t, p, lit) ==
    p + Len(lit) - 1 <= Len(t) /\ SubSeq(t, p, p + Len(lit) - 1) = lit

\* pre followed by a run of min to max characters of chars, the run being
\* the group; opt: or nothing
Class(pre, chars, min, max, opt, cap) ==
    [kind |-> "class", pre |-> pre, chars |-> chars, min |-> min, max |-> max,
     lits |-> <<>>, opt |-> opt, cap |-> cap]

\* one of the literals lits; opt: or nothing
Alt(lits, opt, cap) ==
    [kind |-> "alt", pre |-> <<>>, chars |-> {}, min |-> 0, max |-> 0,
     lits |-> lits, opt |-> opt, cap |-> cap]

\* no input is longer than this
Unbounded == 1000

\* (\d{1,2})
Digits12(cap) == Class(<<>>, DigitSet, 1, 2, FALSE, cap)

\* \s+ and \s*
WsPlus == Class(<<>>, Whitespace, 1, Unbounded, FALSE, "")

WsStar == Class(<<>>, Whitespace, 0, Unbounded, FALSE, "")

MonthNames ==
    <<<<"j", "a", "n">>, <<"f", "e", "b">>, <<"m", "a", "r">>, <<"a", "p", "r">>,
      <<"m", "a", "y">>, <<"j", "u", "n">>, <<"j", "u", "l">>, <<"a", "u", "g">>,
      <<"s", "e", "p">>, <<"o", "c", "t">>, <<"n", "o", "v">>, <<"d", "e", "c">>>>

Weekdays ==
    <<<<"m", "o", "n", "d", "a", "y">>, <<"t", "u", "e", "s", "d", "a", "y">>,
      <<"w", "e", "d", "n", "e", "s", "d", "a", "y">>,
      <<"t", "h", "u", "r", "s", "d", "a", "y">>, <<"f", "r", "i", "d", "a", "y">>,
      <<"s", "a", "t", "u", "r", "d", "a", "y">>, <<"s", "u", "n", "d", "a", "y">>>>

\* the tail of the patterns with \s* in place of \s+ before the name
TimeNameNoGap ==
    <<Digits12("hour"), Class(<<":">>, DigitSet, 2, 2, TRUE, "minute"), WsStar,
      Alt(<<<<"a", "m">>, <<"p", "m">>>>, TRUE, "ampm"), WsStar,
      Class(<<>>, LowerSet \cup Whitespace, 1, Unbounded, FALSE, "name")>>

\* (\d{1,2})(?::(\d{2}))?\s*(am|pm)?\s+([a-z\s]+) : the tail of all five patterns
TimeName ==
    <<Digits12("hour"), Class(<<":">>, DigitSet, 2, 2, TRUE, "minute"), WsStar,
      Alt(<<<<"a", "m">>, <<"p", "m">>>>, TRUE, "ampm"), WsPlus,
      Class(<<>>, LowerSet \cup Whitespace, 1, Unbounded, FALSE, "name")>>

\* the list patterns of parse_booking
patterns ==
    <<<<Digits12("day"), Class(<<>>, {"/", "-"}, 1, 1, FALSE, ""), Digits12("month"),
        WsPlus>> \o TimeName,
      <<Digits12("day"), WsPlus, Alt(MonthNames, FALSE, "month"), WsPlus>> \o TimeName,
      <<Alt(<<<<"t", "o", "m", "o", "r", "r", "o", "w">>>>, FALSE, ""), WsPlus>> \o TimeName,
      <<Alt(<<<<"t", "o", "d", "a", "y">>>>, FALSE, ""), WsPlus>> \o TimeName,
      <<Alt(<<<<"n", "e", "x", "t">>>>, FALSE, ""), WsPlus,
        Alt(Weekdays, FALSE, "weekday"), WsPlus>> \o TimeName>>

\* len(match.groups())
GroupCount(pat) == Cardinality({i \in 1..Len(pat) : pat[i].cap # ""})

\* the groups after the token captured text
Capture(g, tok, text) == IF tok.cap = "" THEN g ELSE [g EXCEPT ![tok.cap] = text]

RECURSIVE ClassRun(_, _, _, _)
\* the length of the longest run of characters of chars at p, max at most
ClassRun(t, p, chars, max) ==
    IF max > 0 /\ CharAt(t, p) \in chars THEN 1 + ClassRun(t, p + 1, chars, max - 1) ELSE 0

\* the value of n with which Match enters a token
Enter == -2

RECURSIVE Match(_, _, _, _, _, _)
\* pattern pat from its token i on, anchored at position p of t. For a class
\* token n is the number of characters to try next (counting down), for an
\* alternation the alternative to try next (counting up). When the tries
\* of an optional token are used up the token is skipped.
Match(pat, i, t, p, g, n) ==
    IF i > Len(pat) THEN g
    ELSE LET tok == pat[i]
             q == p + Len(tok.pre)
             k == IF n # Enter THEN n
                  ELSE IF tok.kind = "alt" THEN 1
                  ELSE IF LitAt(t, p, tok.pre) THEN ClassRun(t, q, tok.chars, tok.max)
                  ELSE -1
             usedUp == IF tok.kind = "alt" THEN k > Len(tok.lits) ELSE k < tok.min
             fits == tok.kind = "class" \/ LitAt(t, p, tok.lits[k])
             text == IF tok.kind = "alt" THEN tok.lits[k] ELSE SubSeq(t, q, q + k - 1)
             next == IF tok.kind = "alt" THEN k + 1 ELSE k - 1
         IN  IF usedUp
             THEN IF tok.opt THEN Match(pat, i + 1, t, p, g, Enter) ELSE NoMatch
             ELSE IF fits
             THEN LET r == Match(pat, i + 1, t, q + Len(text), Capture(g, tok, text), Enter)
                  IN  IF r.ok THEN r ELSE Match(pat, i, t, p, g, next)
             ELSE Match(pat, i, t, p, g, next)

RECURSIVE SearchFrom(_, _, _)
\* re.search(pattern, text): the match at the leftmost position that has one
SearchFrom(pat, t, p) ==
    IF p > Len(t) THEN NoMatch
    ELSE LET r == Match(pat, 1, t, p, NoGroups, Enter)
         IN  IF r.ok THEN r ELSE SearchFrom(pat, t, p + 1)


(***************************************************************************)
(* parse_booking: dates and the result                                     *)
(***************************************************************************)

\* datetime.now(): the day the message is handled (weekday 0 is Monday)
Today == [year |-> 2026, month |-> 12, day |-> 31, weekday |-> 3]

IsLeap(y) == (y % 4 = 0 /\ y % 100 # 0) \/ y % 400 = 0

DaysInMonth(m, y) ==
    IF m = 2 THEN (IF IsLeap(y) THEN 29 ELSE 28)
    ELSE IF m \in {4, 6, 9, 11} THEN 30 ELSE 31

NextDay(d) ==
    IF d.day < DaysInMonth(d.month, d.year)
    THEN [d EXCEPT !.day = d.day + 1]
    ELSE IF d.month < 12
         THEN [d EXCEPT !.day = 1, !.month = d.month + 1]
         ELSE [d EXCEPT !.day = 1, !.month = 1, !.year = d.year + 1]

RECURSIVE AddDays(_, _)
\* date + timedelta(days=n)
AddDays(d, n) == IF n = 0 THEN d ELSE AddDays(NextDay(d), n - 1)

\* f"{n}" / %Y for a four-digit year
Fmt4(n) ==
    <<Digits[(n \div 1000) + 1], Digits[((n \div 100) % 10) + 1],
      Digits[((n \div 10) % 10) + 1], Digits[(n % 10) + 1]>>

\* strftime('%d-%m-%Y')
FormatDate(d) == Fmt02(d.day) \o <<"-">> \o Fmt02(d.month) \o <<"-">> \o Fmt4(d.year)

\* months.get(month[:3].lower(), '01')
month_to_number(month) ==
    LET key == Lower(SubSeq(month, 1, IF Len(month) < 3 THEN Len(month) ELSE 3))
        hit == {i \in 1..Len(MonthNames) : MonthNames[i] = key}
    IN  IF hit = {} THEN <<"0", "1">> ELSE Fmt02(CHOOSE i \in hit : TRUE)

\* the date string of a match with n groups
BookingDate(n, t, g) ==
    CASE n = 6 ->
            ZFill2(g.day) \o <<"-">> \o month_to_number(g.month) \o <<"-">> \o Fmt4(Today.year)
      [] n = 4 ->
            FormatDate(AddDays(Today,
                IF Contains(t, <<"t", "o", "m", "o", "r", "r", "o", "w">>) THEN 1 ELSE 0))
      [] n = 5 ->
            LET target_day == IndexOf(Weekdays, g.weekday) - 1
                diff == target_day - Today.weekday
                days_ahead == IF diff <= 0 THEN diff + 7 ELSE diff
            IN  FormatDate(AddDays(Today, days_ahead))

\* a mapping of the hour that leaves the hour of a pm time as it is
Hour12(g) == IntOf(g.hour)

\* the hour after the am/pm adjustment
Hour24(g) ==
    LET hour == IntOf(g.hour)
    IN  IF g.ampm = <<"p", "m">> /\ hour < 12 THEN hour + 12
        ELSE IF g.ampm = <<"a", "m">> /\ hour = 12 THEN 0
        ELSE hour

\* f"{hour:02d}:{minute or '00'}"
BookingTime(g) ==
    Fmt02(Hour24(g)) \o <<":">> \o (IF g.minute = <<>> THEN <<"0", "0">> ELSE g.minute)

\* the value parse_booking returns when no pattern matches
None == [ok |-> FALSE]

RECURSIVE ParseFrom(_, _)
\* for pattern in patterns: the first pattern that matches decides the result
ParseFrom(k, t) ==
    IF k > Len(patterns) THEN None
    ELSE LET g == SearchFrom(patterns[k], t, 1)
         IN  IF g.ok
             THEN [ok |-> TRUE,
                   date |-> BookingDate(GroupCount(patterns[k]), t, g),
                   time |-> BookingTime(g),
                   name |-> Title(Strip(g.name))]
             ELSE ParseFrom(k + 1, t)

parse_booking(text) == ParseFrom(1, Strip(Lower(text)))


(***************************************************************************)
(* State layer: the tables                                                 *)
(***************************************************************************)

VARIABLES
    businesses,   \* the committed rows of table businesses, by id
    bookings,     \* the committed rows of table bookings, in insertion order
    req           \* per worker process: the webhook request it is handling

vars == <<businesses, bookings, req>>

\* chat_limit=1000 set by signup
TrialLimit == 1000

\* the tenants start with at most this many chats left before the limit
Headroom == 2

\* cap on the rows of table bookings
MaxBookings == 2

BizIds == {1, 2}

\* worker processes handling webhook requests at the same time
Workers == {1, 2}

FlowStates == {"start", "menu", "booking"}

\* the phone fields of the two signups, as typed into the form
SignupPhone(id) ==
    IF id = 1 THEN <<"+", "9", "1", " ", "9", "8", "7", "6", "5", " ", "4", "3", "2", "1", "0">>
    ELSE <<"9", "1", "2", "3", "4", "5", "6", "7", "8", "0">>

\* the From field of inbound messages: the first tenant's number as the
\* gateway spells it, and a number no tenant registered
Senders ==
    {<<"w", "h", "a", "t", "s", "a", "p", "p", ":", "+", "9", "1", "9", "8", "7", "6", "5", "4", "3", "2", "1", "0">>,
     <<"w", "h", "a", "t", "s", "a", "p", "p", ":", "+", "1", "4", "1", "5", "5", "5", "5", "0", "1", "0", "0">>}

\* the Body field of inbound messages
Messages ==
    {<<"r", "e", "s", "e", "t">>,
     <<"r", "e", "s", "t", "a", "r", "t">>,
     <<"h", "e", "l", "p">>,
     <<"m", "e", "n", "u">>,
     <<"h", "i">>,
     <<"h", "e", "l", "l", "o">>,
     <<"1">>,
     <<"b", "o", "o", "k">>,
     <<"2">>,
     <<"3">>,
     <<"4">>,
     <<"5">>,
     <<"6">>,
     <<"e", "x", "i", "t">>,
     <<"b", "y", "e">>,
     <<"9">>,
     <<"c", "a", "n", "c", "e", "l">>,
     <<"b", "a", "c", "k">>,
     <<"1", "2", " ", "f", "e", "b", " ", "5", "p", "m", " ", "R", "a", "h", "u", "l">>,
     <<"1", "2", " ", "f", "e", "b", " ", "5", "p", "m", " ", "a", "m", "i", "t">>,
     <<"1", "5", "/", "0", "3", " ", "1", "0", "a", "m", " ", "B", "o", "b">>,
     <<"n", "o", "t", " ", "a", " ", "d", "a", "t", "e">>,
     <<" ", "M", "E", "N", "U", " ">>,
     <<"C", "a", "n", "c", "e", "l">>}

\* the messages of requests that are handled at the same time
RaceMessages ==
    {<<"1", "2", " ", "f", "e", "b", " ", "5", "p", "m", " ", "R", "a", "h", "u", "l">>,
     <<"1", "2", " ", "f", "e", "b", " ", "5", "p", "m", " ", "a", "m", "i", "t">>,
     <<"c", "a", "n", "c", "e", "l">>,
     <<"1">>}

\* Business(...) as signup creates it, with models.py's column defaults
NewBusiness(id, used) ==
    [id |-> id,
     name |-> IF id = 1 THEN <<"D", "e", "m", "o", " ", "G", "y", "m">> ELSE <<"B", "i", "z", "F", "l", "o", "w", " ", "A", "I">>,
     business_type |-> IF id = 1 THEN <<"G", "y", "m">>
                       ELSE <<"m", "u", "l", "t", "i">>,
     address |-> <<>>,
     whatsapp_number |-> clean_phone(SignupPhone(id)),
     admin_email |-> IF id = 1 THEN <<"g", "y", "m", "@", "d", "e", "m", "o", ".", "c", "o", "m">> ELSE <<"b", "i", "z", "@", "d", "e", "m", "o", ".", "c", "o", "m">>,
     flow_state |-> "start",
     plan |-> <<"t", "r", "i", "a", "l">>,
     is_active |-> TRUE,
     chat_used |-> used,
     chat_limit |-> TrialLimit]


(***************************************************************************)
(* Replies: the kind of text and the values formatted into it              *)
(***************************************************************************)

Reply(kind, args) == [kind |-> kind, args |-> args]

RECURSIVE FmtInt(_)
\* f"{n}" for n >= 0
FmtInt(n) == IF n < 10 THEN <<Digits[n + 1]>> ELSE FmtInt(n \div 10) \o <<Digits[(n % 10) + 1]>>

Upper(s) == [i \in 1..Len(s) |-> UpperChar(s[i])]

\* the industries get_industry_menu has a menu for
MenuIndustries ==
    {<<"r", "e", "s", "t", "a", "u", "r", "a", "n", "t">>,
     <<"c", "l", "i", "n", "i", "c">>,
     <<"s", "a", "l", "o", "n">>,
     <<"g", "y", "m">>,
     <<"r", "e", "a", "l", "e", "s", "t", "a", "t", "e">>}

\* menus.get(business.business_type.lower(), <generic menu>).format(name=business.name)
get_industry_menu(business) ==
    LET industry == Lower(business.business_type)
    IN  Reply("menu", <<IF industry \in MenuIndustries THEN industry ELSE <<>>, business.name>>)

\* the industries _get_services has a text for
ServiceIndustries ==
    {<<"r", "e", "s", "t", "a", "u", "r", "a", "n", "t">>,
     <<"s", "a", "l", "o", "n">>,
     <<"g", "y", "m">>,
     <<"c", "l", "i", "n", "i", "c">>}

get_services(business) ==
    LET industry == Lower(business.business_type)
    IN  Reply("services", <<IF industry \in ServiceIndustries THEN industry ELSE <<>>>>)

get_location(business) ==
    Reply("location",
          <<IF business.address = <<>> THEN <<"M", "a", "i", "n", " ", "L", "o", "c", "a", "t", "i", "o", "n">> ELSE business.address>>)

get_contact(business) == Reply("contact", <<business.whatsapp_number, business.admin_email>>)

get_pricing(business) == Reply("pricing", <<>>)

(***************************************************************************)
(* WhatsAppBot.process_message                                             *)
(*                                                                         *)
(* A call works on the session's copy of the tenant row. Its result is the *)
(* reply, the copy after the assignments, the columns assigned, the        *)
(* Booking it added to the session, and whether it called db.commit().     *)
(***************************************************************************)

Result(reply, business, dirty, added, commit) ==
    [reply |-> reply, business |-> business, dirty |-> dirty,
     added |-> added, commit |-> commit]

\* the menu of a product in which the word book is a second spelling of option 1
options_with_book ==
    (<<"1">> :> "booking") @@ (<<"b", "o", "o", "k">> :> "booking")
    @@ (<<"2">> :> "services") @@ (<<"3">> :> "location") @@ (<<"4">> :> "contact")
    @@ (<<"5">> :> "pricing") @@ (<<"6">> :> "exit")

\* the menu of a product with five options, the fifth being the exit
options_five ==
    (<<"1">> :> "booking") @@ (<<"2">> :> "services") @@ (<<"3">> :> "location")
    @@ (<<"4">> :> "contact") @@ (<<"5">> :> "exit")

\* the dictionary options of _handle_menu
options ==
    (<<"1">> :> "booking") @@ (<<"2">> :> "services") @@ (<<"3">> :> "location")
    @@ (<<"4">> :> "contact") @@ (<<"5">> :> "pricing") @@ (<<"6">> :> "exit")

\* a _handle_menu that stores the state menu whenever it answers an
\* informational option
handle_menu_stores_menu(message, business) ==
    IF message \in DOMAIN options
    THEN CASE options[message] = "booking" ->
                 Result(Reply("booking_prompt", <<>>),
                        [business EXCEPT !.flow_state = "booking"], {"flow_state"}, <<>>, TRUE)
           [] options[message] = "exit" ->
                 Result(Reply("farewell", <<>>),
                        [business EXCEPT !.flow_state = "start"], {"flow_state"}, <<>>, TRUE)
           [] OTHER ->
                 Result(IF options[message] = "services" THEN get_services(business)
                        ELSE IF options[message] = "location" THEN get_location(business)
                        ELSE IF options[message] = "contact" THEN get_contact(business)
                        ELSE get_pricing(business),
                        [business EXCEPT !.flow_state = "menu"], {"flow_state"}, <<>>, TRUE)
    ELSE Result(Reply("invalid_option", <<>>), business, {}, <<>>, FALSE)

\* a _handle_menu whose booking option returns without db.commit()
handle_menu_uncommitted(message, business) ==
    IF message \in DOMAIN options
    THEN CASE options[message] = "booking" ->
                 Result(Reply("booking_prompt", <<>>),
                        [business EXCEPT !.flow_state = "booking"], {"flow_state"}, <<>>, FALSE)
           [] options[message] = "exit" ->
                 Result(Reply("farewell", <<>>),
                        [business EXCEPT !.flow_state = "start"], {"flow_state"}, <<>>, TRUE)
           [] OTHER ->
                 Result(IF options[message] = "services" THEN get_services(business)
                        ELSE IF options[message] = "location" THEN get_location(business)
                        ELSE IF options[message] = "contact" THEN get_contact(business)
                        ELSE get_pricing(business),
                        business, {}, <<>>, FALSE)
    ELSE Result(Reply("invalid_option", <<>>), business, {}, <<>>, FALSE)

\* a _handle_menu whose exit option says farewell and stays at the menu
handle_menu_no_exit(message, business) ==
    IF message \in DOMAIN options
    THEN CASE options[message] = "booking" ->
                 Result(Reply("booking_prompt", <<>>),
                        [business EXCEPT !.flow_state = "booking"], {"flow_state"}, <<>>, TRUE)
           [] options[message] = "exit" ->
                 Result(Reply("farewell", <<>>),
                        [business EXCEPT !.flow_state = "menu"], {"flow_state"}, <<>>, TRUE)
           [] OTHER ->
                 Result(IF options[message] = "services" THEN get_services(business)
                        ELSE IF options[message] = "location" THEN get_location(business)
                        ELSE IF options[message] = "contact" THEN get_contact(business)
                        ELSE get_pricing(business),
                        business, {}, <<>>, FALSE)
    ELSE Result(Reply("invalid_option", <<>>), business, {}, <<>>, FALSE)

handle_menu(message, business) ==
    IF message \in DOMAIN options
    THEN CASE options[message] = "booking" ->
                 Result(Reply("booking_prompt", <<>>),
                        [business EXCEPT !.flow_state = "booking"], {"flow_state"}, <<>>, TRUE)
           [] options[message] = "services" ->
                 Result(get_services(business), business, {}, <<>>, FALSE)
           [] options[message] = "location" ->
                 Result(get_location(business), business, {}, <<>>, FALSE)
           [] options[message] = "contact" ->
                 Result(get_contact(business), business, {}, <<>>, FALSE)
           [] options[message] = "pricing" ->
                 Result(get_pricing(business), business, {}, <<>>, FALSE)
           [] options[message] = "exit" ->
                 Result(Reply("farewell", <<>>),
                        [business EXCEPT !.flow_state = "start"], {"flow_state"}, <<>>, TRUE)
    ELSE Result(Reply("invalid_option", <<>>), business, {}, <<>>, FALSE)

\* a double-booking query that filters on the status the Booking model
\* defaults to
ExistingBookingBooked(table, business, booking_data) ==
    \E i \in 1..Len(table) :
        /\ table[i].business_id = business.id
        /\ table[i].booking_date = booking_data.date
        /\ table[i].booking_time = booking_data.time
        /\ table[i].status \in {"Booked"}

\* a double-booking query without the filter on the status
ExistingBookingAnyStatus(table, business, booking_data) ==
    \E i \in 1..Len(table) :
        /\ table[i].business_id = business.id
        /\ table[i].booking_date = booking_data.date
        /\ table[i].booking_time = booking_data.time

\* a double-booking query without the filter on the tenant
ExistingBookingAnyTenant(table, business, booking_data) ==
    \E i \in 1..Len(table) :
        /\ table[i].booking_date = booking_data.date
        /\ table[i].booking_time = booking_data.time
        /\ table[i].status \in {"pending", "confirmed"}

\* db.query(Booking).filter(business_id, booking_date, booking_time,
\*                          status in ('pending', 'confirmed')).first()
ExistingBooking(table, business, booking_data) ==
    \E i \in 1..Len(table) :
        /\ table[i].business_id = business.id
        /\ table[i].booking_date = booking_data.date
        /\ table[i].booking_time = booking_data.time
        /\ table[i].status \in {"pending", "confirmed"}

\* a Booking built without its status, which then takes the column's default
NewBookingDefaultStatus(business, phone, booking_data) ==
    [business_id |-> business.id,
     name |-> booking_data.name,
     phone |-> phone,
     booking_date |-> booking_data.date,
     booking_time |-> booking_data.time,
     status |-> "Booked"]

\* Booking(business_id=..., name=..., phone=..., booking_date=..., booking_time=...,
\*         status='pending')
NewBooking(business, phone, booking_data) ==
    [business_id |-> business.id,
     name |-> booking_data.name,
     phone |-> phone,
     booking_date |-> booking_data.date,
     booking_time |-> booking_data.time,
     status |-> "pending"]

\* a list of cancel words without back
CancelWordsNoBack == {<<"c", "a", "n", "c", "e", "l">>, <<"e", "x", "i", "t">>}

CancelWords == {<<"c", "a", "n", "c", "e", "l">>, <<"b", "a", "c", "k">>, <<"e", "x", "i", "t">>}

\* a _handle_booking that gives the dialogue up when the text does not parse
book_leaves(phone, business, table, booking_data) ==
    IF ~booking_data.ok
    THEN Result(Reply("format_help", <<>>),
                [business EXCEPT !.flow_state = "menu"], {"flow_state"}, <<>>, TRUE)
    ELSE IF ExistingBooking(table, business, booking_data)
    THEN Result(Reply("already_booked", <<booking_data.time, booking_data.date>>),
                business, {}, <<>>, FALSE)
    ELSE Result(Reply("confirmed",
                      <<booking_data.name, booking_data.date, booking_data.time>>),
                [business EXCEPT !.flow_state = "menu",
                                 !.chat_used = business.chat_used + 1],
                {"flow_state", "chat_used"},
                <<NewBooking(business, phone, booking_data)>>, TRUE)

\* _handle_booking from the result of parse_booking on
book(phone, business, table, booking_data) ==
    IF ~booking_data.ok
    THEN Result(Reply("format_help", <<>>), business, {}, <<>>, FALSE)
    ELSE IF ExistingBooking(table, business, booking_data)
    THEN Result(Reply("already_booked", <<booking_data.time, booking_data.date>>),
                business, {}, <<>>, FALSE)
    ELSE Result(Reply("confirmed",
                      <<booking_data.name, booking_data.date, booking_data.time>>),
                [business EXCEPT !.flow_state = "menu",
                                 !.chat_used = business.chat_used + 1],
                {"flow_state", "chat_used"},
                <<NewBooking(business, phone, booking_data)>>, TRUE)

handle_booking(message, phone, business, table) ==
    IF Lower(message) \in CancelWords
    THEN Result(Reply("cancelled", get_industry_menu(business).args),
                [business EXCEPT !.flow_state = "menu"], {"flow_state"}, <<>>, TRUE)
    ELSE book(phone, business, table, parse_booking(message))

ResetWords == {<<"r", "e", "s", "e", "t">>, <<"r", "e", "s", "t", "a", "r", "t">>, <<"h", "e", "l", "p">>, <<"m", "e", "n", "u">>}

\* a process_message that looks for the reset words only at the menu
process_message_menu_only(phone, msg, business, table) ==
    LET message == Strip(msg)
        lower_msg == Lower(message)
        state == IF business.flow_state = "" THEN "start" ELSE business.flow_state
    IN  IF state = "booking"
        THEN handle_booking(message, phone, business, table)
        ELSE IF lower_msg \in ResetWords
        THEN Result(get_industry_menu(business),
                    [business EXCEPT !.flow_state = "menu"], {"flow_state"}, <<>>, TRUE)
        ELSE handle_menu(message, business)

\* a process_message that handles every stored state other than booking at
\* the menu
process_message_any_state(phone, msg, business, table) ==
    LET message == Strip(msg)
        lower_msg == Lower(message)
        state == IF business.flow_state = "" THEN "start" ELSE business.flow_state
    IN  IF lower_msg \in ResetWords
        THEN Result(get_industry_menu(business),
                    [business EXCEPT !.flow_state = "menu"], {"flow_state"}, <<>>, TRUE)
        ELSE IF state = "booking"
        THEN handle_booking(message, phone, business, table)
        ELSE handle_menu(message, business)

process_message(phone, msg, business, table) ==
    LET message == Strip(msg)
        lower_msg == Lower(message)
        state == IF business.flow_state = "" THEN "start" ELSE business.flow_state
    IN  IF lower_msg \in ResetWords
        THEN Result(get_industry_menu(business),
                    [business EXCEPT !.flow_state = "menu"], {"flow_state"}, <<>>, TRUE)
        ELSE IF state = "start" \/ state = "menu"
        THEN handle_menu(message, business)
        ELSE IF state = "booking"
        THEN handle_booking(message, phone, business, table)
        ELSE Result(get_industry_menu(business),
                    [business EXCEPT !.flow_state = "menu"], {"flow_state"}, <<>>, TRUE)


(***************************************************************************)
(* whatsapp_webhook, one request per worker process                        *)
(*                                                                         *)
(* A request touches the database at three points: the query that loads    *)
(* the tenant row, the double-booking query of _handle_booking, and        *)
(* db.commit(). Everything between two of them is local to the worker, so  *)
(* each action is one database operation with the local code around it.    *)
(* No lock is taken and no row is read FOR UPDATE: the rows may change     *)
(* between the steps of a request.                                         *)
(***************************************************************************)

NoBusiness == [id |-> 0]

NoReply == Reply("", <<>>)

NoResult == Result(NoReply, NoBusiness, {}, <<>>, FALSE)

Idle ==
    [pc |-> "idle", from |-> <<>>, message |-> <<>>, business |-> NoBusiness,
     res |-> NoResult, reply |-> NoReply]

\* the reply of the except branch of whatsapp_webhook
ErrorReply == Reply("error", <<>>)

NotRegistered == Reply("not_registered", <<>>)

InactiveReply == Reply("inactive", <<>>)

LimitReply(business) == Reply("limit", <<Upper(business.plan), FmtInt(business.chat_limit)>>)

\* a tenant query without the filter on the sender's number
FindAnyBusiness(rows, phone) == {id \in BizIds : rows[id].is_active \/ ~rows[id].is_active}

\* db.query(Business).filter(Business.whatsapp_number == phone).first()
FindBusiness(rows, phone) == {id \in BizIds : rows[id].whatsapp_number = phone}

\* a guardrail that lets the tenant use one chat more than its limit
GuardrailOverLimit(business) ==
    IF ~business.is_active THEN InactiveReply
    ELSE IF business.chat_used > business.chat_limit THEN LimitReply(business)
    ELSE NoReply

\* PLANS["enterprise"]["chats"] is the string "Unlimited". Stored in the
\* Integer column chat_limit it stays a string (SQLite), and it is the one
\* value of the column that is no number: here it is the value Unlimited,
\* and chat_used >= chat_limit raises TypeError on it, inside the try of
\* whatsapp_webhook
Unlimited == -1

\* the guardrail of whatsapp_webhook: the fixed reply, or NoReply when the
\* message goes on to process_message
Guardrail(business) ==
    IF ~business.is_active THEN InactiveReply
    ELSE IF business.chat_limit = Unlimited THEN ErrorReply
    ELSE IF business.chat_used >= business.chat_limit THEN LimitReply(business)
    ELSE NoReply

\* the unit of work of the session: an assignment of the value the row was
\* loaded with is no change, and db.commit() sends no UPDATE for it
Changed(loaded, res) ==
    [res EXCEPT !.dirty = {col \in res.dirty : res.business[col] # loaded[col]}]

\* a commit that stores the conversation state and loses the other columns
CommitStateOnly(rows, res) ==
    [rows EXCEPT ![res.business.id] =
        [col \in DOMAIN @ |-> IF col \in res.dirty \cap {"flow_state"}
                               THEN res.business[col] ELSE @[col]]]

\* db.commit(): the UPDATE of the columns the request assigned, and the
\* INSERT of the rows it added, in one transaction
CommitRows(rows, res) ==
    [rows EXCEPT ![res.business.id] =
        [col \in DOMAIN @ |-> IF col \in res.dirty THEN res.business[col] ELSE @[col]]]

CommitBookings(table, res) == table \o res.added

TypeOK ==
    /\ DOMAIN businesses = BizIds
    /\ \A id \in BizIds :
          /\ businesses[id].flow_state \in FlowStates
          /\ businesses[id].chat_used \in 0..TrialLimit
          /\ businesses[id].is_active \in BOOLEAN
    /\ Len(bookings) <= MaxBookings
    /\ \A w \in Workers : req[w].pc \in {"idle", "loaded", "checked", "done"}

Init ==
    /\ \E used \in {TrialLimit - Headroom, TrialLimit}, active \in BOOLEAN :
          businesses = [id \in BizIds |->
              IF id = 1
              THEN [NewBusiness(1, used) EXCEPT !.is_active = active]
              ELSE NewBusiness(id, 0)]
    /\ bookings = <<>>
    /\ req = [w \in Workers |-> Idle]

InFlight(w) == req[w].pc \in {"loaded", "checked"}

\* the request arrives (the requests are those the rate limiter let through)
\* and the tenant row is loaded by the sender's number.
\* A worker takes a request when it is idle. Requests that overlap in time
\* carry messages of RaceMessages; a response that is ready is returned
\* (Finish) before the next request is looked at, which loses no behaviour
\* of the tables: a worker with a ready response touches nothing any more.
Receive(w, from, message) ==
    /\ req[w].pc = "idle"
    /\ \A v \in Workers \ {w} :
          /\ req[v].pc # "done"
          /\ InFlight(v) => message \in RaceMessages /\ req[v].message \in RaceMessages
    /\ LET found == FindBusiness(businesses, clean_phone(from))
       IN  req' = [req EXCEPT ![w] =
                IF found = {}
                THEN [Idle EXCEPT !.pc = "done", !.from = from, !.message = message,
                                  !.reply = NotRegistered]
                ELSE [Idle EXCEPT !.pc = "loaded", !.from = from, !.message = message,
                                  !.business = businesses[CHOOSE id \in found : TRUE]]]
    /\ UNCHANGED <<businesses, bookings>>

\* the response is returned and get_db closes the session
Finish(w) ==
    /\ req[w].pc = "done"
    /\ req' = [req EXCEPT ![w] = Idle]
    /\ UNCHANGED <<businesses, bookings>>

\* the guardrail answers: process_message is not called
Blocked(w) ==
    /\ req[w].pc = "loaded"
    /\ Guardrail(req[w].business) # NoReply
    /\ req' = [req EXCEPT ![w].pc = "done", ![w].reply = Guardrail(req[w].business)]
    /\ UNCHANGED <<businesses, bookings>>

\* what a request does with the result res of process_message: it goes on
\* to the commit of _handle_booking when a Booking was added, and else
\* commits, or fails to commit, what process_message assigned
Continue(w, commitOk, res) ==
    IF res.added # <<>>
    THEN /\ commitOk
         /\ Len(bookings) + Cardinality({v \in Workers : req[v].pc = "checked"})
               < MaxBookings
         /\ req' = [req EXCEPT ![w].pc = "checked", ![w].res = res]
         /\ UNCHANGED <<businesses, bookings>>
    ELSE IF res.commit /\ commitOk
    THEN /\ businesses' = CommitRows(businesses, Changed(req[w].business, res))
         /\ req' = [req EXCEPT ![w].pc = "done", ![w].res = res,
                               ![w].reply = res.reply]
         /\ UNCHANGED bookings
    ELSE IF res.commit
    THEN /\ req' = [req EXCEPT ![w].pc = "done", ![w].res = res,
                               ![w].reply = ErrorReply]
         /\ UNCHANGED <<businesses, bookings>>
    ELSE /\ commitOk
         /\ req' = [req EXCEPT ![w].pc = "done", ![w].res = res,
                               ![w].reply = res.reply]
         /\ UNCHANGED <<businesses, bookings>>

\* process_message up to its return or, when it adds a Booking, up to the
\* double-booking query; commitOk is whether its db.commit() succeeds
Process(w, commitOk) ==
    /\ req[w].pc = "loaded"
    /\ Guardrail(req[w].business) = NoReply
    /\ Continue(w, commitOk,
                process_message(clean_phone(req[w].from), req[w].message,
                                req[w].business, bookings))

\* a commit whose failure is swallowed: the reply of process_message is
\* returned although nothing was stored
CommitSwallows(w, commitOk) ==
    /\ req[w].pc = "checked"
    /\ req' = [req EXCEPT ![w].pc = "done", ![w].reply = req[w].res.reply]
    /\ IF commitOk
       THEN /\ businesses' = CommitRows(businesses, Changed(req[w].business, req[w].res))
            /\ bookings' = CommitBookings(bookings, req[w].res)
       ELSE UNCHANGED <<businesses, bookings>>

\* db.commit() of _handle_booking: the Booking row, flow_state and chat_used
Commit(w, commitOk) ==
    /\ req[w].pc = "checked"
    /\ IF commitOk
       THEN /\ businesses' = CommitRows(businesses, Changed(req[w].business, req[w].res))
            /\ bookings' = CommitBookings(bookings, req[w].res)
            /\ req' = [req EXCEPT ![w].pc = "done", ![w].reply = req[w].res.reply]
       ELSE /\ req' = [req EXCEPT ![w].pc = "done", ![w].reply = ErrorReply]
            /\ UNCHANGED <<businesses, bookings>>

Next ==
    \/ \E w \in Workers, from \in Senders, message \in Messages : Receive(w, from, message)
    \/ \E w \in Workers : Blocked(w)
    \/ \E w \in Workers, commitOk \in BOOLEAN : Process(w, commitOk)
    \/ \E w \in Workers, commitOk \in BOOLEAN : Commit(w, commitOk)
    \/ \E w \in Workers : Finish(w)

Spec == Init /\ [][Next]_vars


(***************************************************************************)
(* Vocabulary of the properties                                            *)
(*                                                                         *)
(* One worker moves in a step. A request "completes" in the step in which  *)
(* its reply becomes ready; the tenant it is about is the row it read.     *)
(***************************************************************************)

\* worker w's request gets its reply in this step
Completes(w) == InFlight(w) /\ req'[w].pc = "done"

\* worker w takes this step
Moves(w) == req'[w] # req[w]

\* the tenant row as the request read it
Read(w) == req[w].business

\* the row the request read is active and under its limit
PassesGuardrail(w) == Read(w).is_active /\ Read(w).chat_used < Read(w).chat_limit

\* the request did not end in the except branch of whatsapp_webhook
NoException(w) == req'[w].reply # ErrorReply

\* the text process_message works on
Text(w) == Strip(req[w].message)

\* the step leaves the durable data of every tenant as it is
TablesUnchanged == businesses' = businesses /\ bookings' = bookings

\* no request has changed the tenant row since the request of worker w read it
Unraced(w) == businesses[Read(w).id] = Read(w)

\* worker w holds the ready reply of a request that found its tenant
Answered(w) == req[w].pc = "done" /\ req[w].reply # NotRegistered

(***************************************************************************)
(* C1. Guardrail: a request that reads a tenant row that is inactive or    *)
(* has chat_used >= chat_limit never changes the conversation state, the   *)
(* usage counter or the bookings, whatever the message, and its reply is   *)
(* the fixed inactive or limit-reached text.                               *)
(***************************************************************************)
C1_Guardrail ==
    [][\A w \in Workers :
          (req[w].pc = "loaded" /\ Moves(w)
             /\ (~Read(w).is_active \/ Read(w).chat_used >= Read(w).chat_limit))
          => /\ TablesUnchanged
             /\ req'[w].pc = "done"
             /\ req'[w].reply =
                  IF ~Read(w).is_active
                  THEN Reply("inactive", <<>>)
                  ELSE Reply("limit", <<Upper(Read(w).plan), FmtInt(Read(w).chat_limit)>>)
      ]_vars

\* a tenant at its limit was sent a booking request and got the limit reply
C1_Witness ==
    \E w \in Workers :
        /\ Answered(w)
        /\ req[w].message = <<"1", "2", " ", "f", "e", "b", " ", "5", "p", "m", " ", "R", "a", "h", "u", "l">>
        /\ req[w].business.is_active
        /\ req[w].business.flow_state = "booking"
        /\ req[w].business.chat_used >= req[w].business.chat_limit
        /\ req[w].reply.kind = "limit"

(***************************************************************************)
(* C2. Serialized handling: a request that writes the tenant row writes    *)
(* over the row it read: no other request of the tenant has changed the    *)
(* row between this request's read and its write.                          *)
(***************************************************************************)
C2_Serialized ==
    [][\A w \in Workers :
          (Completes(w) /\ businesses' # businesses)
          => businesses[Read(w).id] = Read(w)
      ]_vars

(***************************************************************************)
(* C3 as claimed. A request that passes the guardrail adds a Booking row   *)
(* if and only if it read the state booking and its text parsed; checked   *)
(* for the requests that no other request of the tenant interferes with.   *)
(***************************************************************************)
C3_AsClaimed ==
    [][\A w \in Workers :
          (Completes(w) /\ PassesGuardrail(w) /\ NoException(w) /\ Unraced(w))
          => ((bookings' # bookings)
                <=> (Read(w).flow_state = "booking" /\ parse_booking(Text(w)).ok))
      ]_vars

(***************************************************************************)
(* C3 amended. A request that passes the guardrail adds a Booking row if   *)
(* and only if it read the state booking, its text parsed, the            *)
(* double-booking query found no pending or confirmed booking of the       *)
(* tenant at the parsed date and time, and the commit succeeded; in every  *)
(* other case the bookings are unchanged.                                  *)
(***************************************************************************)
C3_BookingIff ==
    [][\A w \in Workers :
          LET data == parse_booking(Text(w))
              wanted == Read(w).flow_state = "booking" /\ data.ok
              taken == \E i \in 1..Len(bookings) :
                          /\ bookings[i].business_id = Read(w).id
                          /\ bookings[i].booking_date = data.date
                          /\ bookings[i].booking_time = data.time
                          /\ bookings[i].status \in {"pending", "confirmed"}
          IN  /\ (req[w].pc = "loaded" /\ Moves(w) /\ PassesGuardrail(w))
                 => /\ bookings' = bookings
                    /\ (req'[w].pc = "checked") <=> (wanted /\ ~taken)
              /\ (req[w].pc = "checked" /\ Moves(w))
                 => /\ wanted
                    /\ IF NoException(w)
                       THEN /\ Len(bookings') = Len(bookings) + 1
                            /\ SubSeq(bookings', 1, Len(bookings)) = bookings
                            /\ bookings'[Len(bookings')].business_id = Read(w).id
                       ELSE bookings' = bookings
      ]_vars

\* a booking text was handled in the state booking and its row is stored
C3_Witness ==
    \E w \in Workers :
        /\ Answered(w)
        /\ req[w].business.flow_state = "booking"
        /\ parse_booking(Strip(req[w].message)).ok
        /\ req[w].reply.kind = "confirmed"
        /\ \E i \in 1..Len(bookings) : bookings[i].name = req[w].reply.args[1]

(***************************************************************************)
(* C4. Atomic booking: the commit of _handle_booking either stores all of  *)
(* (one Booking row appended, usage counter set to one more than the       *)
(* request read, conversation state menu) or, when it fails, none of them. *)
(* No step stores a part of them.                                          *)
(***************************************************************************)
C4_AtomicBooking ==
    [][\A w \in Workers :
          (req[w].pc = "checked" /\ Moves(w))
          => LET id == Read(w).id
             IN  \/ /\ Len(bookings') = Len(bookings) + 1
                    /\ SubSeq(bookings', 1, Len(bookings)) = bookings
                    /\ businesses'[id].chat_used = Read(w).chat_used + 1
                    /\ businesses'[id].flow_state = "menu"
                    /\ NoException(w)
                 \/ /\ TablesUnchanged
                    /\ ~NoException(w)
      ]_vars

\* the commit of a booking failed: the reply is the error reply and the
\* tenant has neither the row nor the new state nor the increment
C4_Witness ==
    \E w \in Workers :
        /\ Answered(w)
        /\ req[w].res.added # <<>>
        /\ req[w].reply = ErrorReply
        /\ bookings = <<>>
        /\ businesses[req[w].business.id] = req[w].business

(***************************************************************************)
(* C5. Menu commands: a request that passes the guardrail with the text    *)
(* reset, restart, help or menu, read in any of the states start, menu and *)
(* booking, stores the state menu, replies with the tenant's menu text and *)
(* adds no booking.                                                        *)
(***************************************************************************)
C5_MenuCommands ==
    [][\A w \in Workers :
          (Completes(w) /\ PassesGuardrail(w) /\ NoException(w)
             /\ Read(w).flow_state \in FlowStates
             /\ Lower(Text(w)) \in {<<"r", "e", "s", "e", "t">>, <<"r", "e", "s", "t", "a", "r", "t">>, <<"h", "e", "l", "p">>, <<"m", "e", "n", "u">>})
          => /\ businesses'[Read(w).id].flow_state = "menu"
             /\ req'[w].reply = get_industry_menu(Read(w))
             /\ bookings' = bookings
      ]_vars

\* reset was sent in the middle of a booking and the tenant is back at the menu
C5_Witness ==
    \E w \in Workers :
        /\ Answered(w)
        /\ req[w].message = <<"r", "e", "s", "e", "t">>
        /\ req[w].business.flow_state = "booking"
        /\ req[w].reply.kind = "menu"
        /\ businesses[req[w].business.id].flow_state = "menu"


(***************************************************************************)
(* C6. Greeting words: a request that passes the guardrail with the text   *)
(* hi or hello, read in any of the states start, menu and booking, stores  *)
(* the state menu and replies with the tenant's menu text.                 *)
(***************************************************************************)
C6_Greetings ==
    [][\A w \in Workers :
          (Completes(w) /\ PassesGuardrail(w) /\ NoException(w)
             /\ Read(w).flow_state \in FlowStates
             /\ Lower(Text(w)) \in {<<"h", "i">>, <<"h", "e", "l", "l", "o">>})
          => /\ businesses'[Read(w).id].flow_state = "menu"
             /\ req'[w].reply = get_industry_menu(Read(w))
      ]_vars

\* the text of a request is 1, and the request read the tenant at the menu
StartsBooking(w) ==
    /\ PassesGuardrail(w)
    /\ Read(w).flow_state = "menu"
    /\ Text(w) = <<"1">>

\* the request read the tenant in the state booking and its text parses
BookingText(w) ==
    /\ PassesGuardrail(w)
    /\ Read(w).flow_state = "booking"
    /\ parse_booking(Text(w)).ok

\* the Booking row the claim describes for the request of worker w
ClaimedBooking(w) ==
    LET data == parse_booking(Text(w))
    IN  [business_id |-> Read(w).id,
         name |-> data.name,
         phone |-> clean_phone(req[w].from),
         booking_date |-> data.date,
         booking_time |-> data.time,
         status |-> "pending"]

\* the step stores the state menu and exactly the claimed row, and the reply
\* is the confirmation with the parsed name, date and time
BookingStored(w) ==
    LET data == parse_booking(Text(w))
    IN  /\ businesses'[Read(w).id].flow_state = "menu"
        /\ bookings' = Append(bookings, ClaimedBooking(w))
        /\ req'[w].reply = Reply("confirmed", <<data.name, data.date, data.time>>)

(***************************************************************************)
(* C7 as claimed. Happy path: a request that read the state menu with the  *)
(* text 1 stores the state booking; a request that read the state booking  *)
(* with a text that parses stores the state menu and one pending Booking   *)
(* row with the parsed date, time and name and the sender's phone, and     *)
(* replies with the confirmation of these values; checked for the requests *)
(* that no other request of the tenant interferes with.                    *)
(***************************************************************************)
C7_AsClaimed ==
    [][\A w \in Workers :
          /\ (Completes(w) /\ NoException(w) /\ StartsBooking(w))
             => businesses'[Read(w).id].flow_state = "booking"
          /\ (InFlight(w) /\ Moves(w) /\ NoException(w) /\ BookingText(w) /\ Unraced(w))
             => \/ req'[w].pc = "checked" /\ TablesUnchanged
                \/ BookingStored(w)
      ]_vars

(***************************************************************************)
(* C7 amended. Happy path: a request that read the state menu with the     *)
(* text 1 stores the state booking; a request that read the state booking  *)
(* with a text that parses, and whose double-booking query finds no        *)
(* pending or confirmed booking of the tenant at the parsed date and time, *)
(* stores the state menu and one pending Booking row with the parsed date, *)
(* time and name and the sender's phone, and replies with the confirmation *)
(* of these values. When the query finds such a booking the request stores *)
(* nothing, the state stays booking and the reply says that the time is    *)
(* already booked.                                                         *)
(***************************************************************************)
C7_HappyPath ==
    [][\A w \in Workers :
          LET data == parse_booking(Text(w))
              taken == \E i \in 1..Len(bookings) :
                          /\ bookings[i].business_id = Read(w).id
                          /\ bookings[i].booking_date = data.date
                          /\ bookings[i].booking_time = data.time
                          /\ bookings[i].status \in {"pending", "confirmed"}
          IN  /\ (Completes(w) /\ NoException(w) /\ StartsBooking(w))
                 => businesses'[Read(w).id].flow_state = "booking"
              /\ (req[w].pc = "loaded" /\ Moves(w) /\ BookingText(w))
                 => /\ TablesUnchanged
                    /\ IF taken
                       THEN /\ req'[w].pc = "done"
                            /\ req'[w].reply = Reply("already_booked", <<data.time, data.date>>)
                       ELSE req'[w].pc = "checked"
              /\ (req[w].pc = "checked" /\ Moves(w) /\ NoException(w))
                 => BookingText(w) /\ BookingStored(w)
      ]_vars

\* "12 feb 5pm Rahul" was sent in the state booking: the tenant is at the
\* menu and holds Rahul's pending booking with the sender's number
C7_Witness ==
    \E w \in Workers :
        /\ Answered(w)
        /\ req[w].message = <<"1", "2", " ", "f", "e", "b", " ", "5", "p", "m", " ", "R", "a", "h", "u", "l">>
        /\ req[w].business.flow_state = "booking"
        /\ req[w].reply.kind = "confirmed"
        /\ businesses[req[w].business.id].flow_state = "menu"
        /\ Len(bookings) = 1
        /\ bookings[1] =
              [business_id |-> req[w].business.id,
               name |-> <<"R", "a", "h", "u", "l">>,
               phone |-> <<"+", "9", "1", "9", "8", "7", "6", "5", "4", "3", "2", "1", "0">>,
               booking_date |-> <<"1", "2", "-", "0", "2", "-", "2", "0", "2", "6">>,
               booking_time |-> <<"1", "7", ":", "0", "0">>,
               status |-> "pending"]

\* the request passes the guardrail and read the tenant at start or at the menu
AtMenu(w) == PassesGuardrail(w) /\ Read(w).flow_state \in {"start", "menu"}

\* the step stores the state booking and nothing else, and the reply is the
\* booking-format instructions
BookingStarted(w) ==
    /\ businesses'[Read(w).id].flow_state = "booking"
    /\ req'[w].reply = Reply("booking_prompt", <<>>)
    /\ bookings' = bookings
    /\ businesses'[Read(w).id].chat_used = businesses[Read(w).id].chat_used

(***************************************************************************)
(* C8 as claimed. Starting a booking: a request that read the state start  *)
(* or menu with the text 1 or book stores the state booking and replies    *)
(* with the booking-format instructions, adding no booking and leaving the *)
(* usage counter as it is.                                                 *)
(***************************************************************************)
C8_AsClaimed ==
    [][\A w \in Workers :
          (Completes(w) /\ NoException(w) /\ AtMenu(w)
             /\ Text(w) \in {<<"1">>, <<"b", "o", "o", "k">>})
          => BookingStarted(w)
      ]_vars

(***************************************************************************)
(* C8 amended. Starting a booking: a request that read the state start or  *)
(* menu with the text 1 stores the state booking and replies with the      *)
(* booking-format instructions, adding no booking and leaving the usage    *)
(* counter as it is; with the text book it gets the invalid-option reply   *)
(* and changes nothing.                                                    *)
(***************************************************************************)
C8_StartBooking ==
    [][\A w \in Workers :
          /\ (Completes(w) /\ NoException(w) /\ AtMenu(w) /\ Text(w) = <<"1">>)
             => BookingStarted(w)
          /\ (Completes(w) /\ AtMenu(w) /\ Text(w) = <<"b", "o", "o", "k">>)
             => /\ req'[w].reply = Reply("invalid_option", <<>>)
                /\ TablesUnchanged
      ]_vars

\* 1 was sent at start and the tenant is in the state booking
C8_Witness ==
    \E w \in Workers :
        /\ Answered(w)
        /\ req[w].message = <<"1">>
        /\ req[w].business.flow_state = "start"
        /\ req[w].reply.kind = "booking_prompt"
        /\ businesses[req[w].business.id].flow_state = "booking"
        /\ bookings = <<>>

(***************************************************************************)
(* C9 as claimed. Exit: a request that read the state start or menu with   *)
(* the text 5, exit or bye replies with the farewell and stores the state  *)
(* start.                                                                  *)
(***************************************************************************)
C9_AsClaimed ==
    [][\A w \in Workers :
          (Completes(w) /\ NoException(w) /\ AtMenu(w)
             /\ Text(w) \in {<<"5">>, <<"e", "x", "i", "t">>, <<"b", "y", "e">>})
          => /\ req'[w].reply = Reply("farewell", <<>>)
             /\ businesses'[Read(w).id].flow_state = "start"
      ]_vars

(***************************************************************************)
(* C9 amended. Exit: a request that read the state start or menu with the  *)
(* text 6 replies with the farewell and stores the state start. With the   *)
(* text 5 it gets the pricing text, with exit or bye the invalid-option    *)
(* reply, and these three change nothing.                                  *)
(***************************************************************************)
C9_Exit ==
    [][\A w \in Workers :
          /\ (Completes(w) /\ NoException(w) /\ AtMenu(w) /\ Text(w) = <<"6">>)
             => /\ req'[w].reply = Reply("farewell", <<>>)
                /\ businesses'[Read(w).id].flow_state = "start"
                /\ bookings' = bookings
          /\ (Completes(w) /\ AtMenu(w) /\ Text(w) = <<"5">>)
             => /\ req'[w].reply = Reply("pricing", <<>>)
                /\ TablesUnchanged
          /\ (Completes(w) /\ AtMenu(w)
                /\ Text(w) \in {<<"e", "x", "i", "t">>, <<"b", "y", "e">>})
             => /\ req'[w].reply = Reply("invalid_option", <<>>)
                /\ TablesUnchanged
      ]_vars

\* 6 was sent at the menu and the tenant is back at start
C9_Witness ==
    \E w \in Workers :
        /\ Answered(w)
        /\ req[w].message = <<"6">>
        /\ req[w].business.flow_state = "menu"
        /\ req[w].reply.kind = "farewell"
        /\ businesses[req[w].business.id].flow_state = "start"

(***************************************************************************)
(* C10. Informational and invalid menu inputs: a request that read the     *)
(* state start or menu with the text 2, 3 or 4, or with a text that is     *)
(* neither an option of the menu (1 to 6) nor a menu command, leaves the   *)
(* conversation state, the usage counter and the bookings of every tenant  *)
(* as they are; the text that is no option gets the invalid-option reply.  *)
(***************************************************************************)
C10_InfoAndInvalid ==
    [][\A w \in Workers :
          /\ (Completes(w) /\ AtMenu(w) /\ Text(w) \in {<<"2">>, <<"3">>, <<"4">>})
             => /\ TablesUnchanged
                /\ req'[w].reply.kind \in {"services", "location", "contact"}
          /\ (Completes(w) /\ AtMenu(w)
                /\ Text(w) \notin {<<"1">>, <<"2">>, <<"3">>, <<"4">>, <<"5">>, <<"6">>}
                /\ Lower(Text(w)) \notin {<<"r", "e", "s", "e", "t">>, <<"r", "e", "s", "t", "a", "r", "t">>, <<"h", "e", "l", "p">>, <<"m", "e", "n", "u">>})
             => /\ TablesUnchanged
                /\ req'[w].reply = Reply("invalid_option", <<>>)
      ]_vars

\* 9 was sent at the menu: the reply is the invalid-option reply and the
\* tenant row is the row the request read
C10_Witness ==
    \E w \in Workers :
        /\ Answered(w)
        /\ req[w].message = <<"9">>
        /\ req[w].business.flow_state = "menu"
        /\ req[w].reply.kind = "invalid_option"
        /\ businesses[req[w].business.id] = req[w].business

\* the request read the tenant in the state booking
InBooking(w) == PassesGuardrail(w) /\ Read(w).flow_state = "booking"

(***************************************************************************)
(* C11. Cancel mid-booking: a request that read the state booking with the *)
(* text cancel, back or exit (in any case) stores the state menu, adds no  *)
(* booking, leaves the usage counter as it is, and replies with the        *)
(* cancellation text followed by the menu of the tenant.                   *)
(***************************************************************************)
C11_CancelBooking ==
    [][\A w \in Workers :
          (Completes(w) /\ InBooking(w) /\ NoException(w)
             /\ Lower(Text(w)) \in {<<"c", "a", "n", "c", "e", "l">>,
                                    <<"b", "a", "c", "k">>,
                                    <<"e", "x", "i", "t">>})
          => /\ businesses'[Read(w).id].flow_state = "menu"
             /\ bookings' = bookings
             /\ businesses'[Read(w).id].chat_used = businesses[Read(w).id].chat_used
             /\ req'[w].reply = Reply("cancelled", get_industry_menu(Read(w)).args)
      ]_vars

\* a booking dialogue was left with back and the tenant is at the menu
C11_Witness ==
    \E w \in Workers :
        /\ Answered(w)
        /\ req[w].message = <<"b", "a", "c", "k">>
        /\ req[w].business.flow_state = "booking"
        /\ req[w].reply.kind = "cancelled"
        /\ businesses[req[w].business.id].flow_state = "menu"
        /\ bookings = <<>>

\* the text of the request reaches parse_booking: it is no reset word and no
\* cancel word
Parsed(w) == Lower(Text(w)) \notin ResetWords \cup CancelWords

(***************************************************************************)
(* C12. Malformed booking retry: a request that read the state booking     *)
(* with a text that parse_booking rejects changes no row of any table (the *)
(* state stays booking, no booking is added, the usage counter is as it    *)
(* was) and replies with the format help. As the step changes nothing, the *)
(* same holds for the next failing text, for any number of them.           *)
(***************************************************************************)
C12_MalformedRetry ==
    [][\A w \in Workers :
          (req[w].pc = "loaded" /\ Moves(w) /\ InBooking(w) /\ Parsed(w)
             /\ ~parse_booking(Text(w)).ok)
          => /\ TablesUnchanged
             /\ req'[w].pc = "done"
             /\ req'[w].reply = Reply("format_help", <<>>)
      ]_vars

\* a text that does not parse was answered with the format help and the
\* tenant is still in the state booking
C12_Witness ==
    \E w \in Workers :
        /\ Answered(w)
        /\ req[w].message = <<"n", "o", "t", " ", "a", " ", "d", "a", "t", "e">>
        /\ req[w].business.flow_state = "booking"
        /\ req[w].reply.kind = "format_help"
        /\ businesses[req[w].business.id].flow_state = "booking"

(***************************************************************************)
(* C13. No double booking: in every reachable state no tenant has two      *)
(* pending bookings with the same date and time, also when two booking     *)
(* messages of the tenant are handled at the same time.                    *)
(***************************************************************************)
C13_NoDoubleBooking ==
    \A i, j \in 1..Len(bookings) :
        (/\ i # j
         /\ bookings[i].business_id = bookings[j].business_id
         /\ bookings[i].booking_date = bookings[j].booking_date
         /\ bookings[i].booking_time = bookings[j].booking_time
         /\ bookings[i].status = "pending")
        => bookings[j].status # "pending"

(***************************************************************************)
(* C14. Persistence failure never yields a confirmation: when the commit   *)
(* of a booking stores no row, the reply of that request is the error      *)
(* reply, not the confirmation, and no table has changed; a confirmation   *)
(* is returned only together with the stored row of that message.          *)
(***************************************************************************)
C14_NoConfirmationOnFailure ==
    [][\A w \in Workers :
          (req[w].pc = "checked" /\ Moves(w))
          => /\ (bookings' = bookings)
                => /\ req'[w].reply = ErrorReply
                   /\ req'[w].reply.kind # "confirmed"
                   /\ businesses' = businesses
             /\ (req'[w].reply.kind = "confirmed")
                => bookings' = Append(bookings, req[w].res.added[1])
      ]_vars

\* the commit of the second booking of a tenant failed: the confirmation
\* that process_message had prepared was not returned and the table holds
\* the first booking only
C14_Witness ==
    \E w \in Workers :
        /\ Answered(w)
        /\ req[w].res.reply.kind = "confirmed"
        /\ req[w].reply = ErrorReply
        /\ Len(bookings) = 1
        /\ bookings[1] # req[w].res.added[1]

(***************************************************************************)
(* C15. Durable before the reply: when the reply of process_message        *)
(* becomes ready, every change process_message made to the conversation    *)
(* state or the usage counter of the row it read is in the store; no reply *)
(* of process_message is ready while the store holds the previous value.   *)
(***************************************************************************)
C15_DurableBeforeReply ==
    [][\A w \in Workers :
          (Completes(w) /\ PassesGuardrail(w) /\ NoException(w))
          => \A col \in {"flow_state", "chat_used"} :
                (req'[w].res.business[col] # Read(w)[col])
                => businesses'[Read(w).id][col] = req'[w].res.business[col]
      ]_vars

\* the exit option was answered with the farewell and the store holds the
\* state start
C15_Witness ==
    \E w \in Workers :
        /\ Answered(w)
        /\ req[w].business.flow_state = "menu"
        /\ req[w].res.business.flow_state = "start"
        /\ req[w].reply.kind = "farewell"
        /\ businesses[req[w].business.id].flow_state = "start"

\* the slot the booking texts of Messages for 12 feb ask for
Slot12Feb ==
    parse_booking(<<"1", "2", " ", "f", "e", "b", " ", "5", "p", "m", " ", "R", "a", "h", "u", "l">>)

\* other contents of the bookings table a run may meet: none, the slot of
\* 12 feb held by the first tenant, held by the second tenant, and held by
\* a cancelled booking of the first tenant
OtherStores ==
    {<<>>,
     <<NewBooking(NewBusiness(1, 0), <<"+", "1">>, Slot12Feb)>>,
     <<NewBooking(NewBusiness(2, 0), <<"+", "1">>, Slot12Feb)>>,
     <<[NewBooking(NewBusiness(1, 0), <<"+", "1">>, Slot12Feb) EXCEPT !.status = "cancelled"]>>}

\* other values of the usage counter of a tenant that passes the guardrail
OtherCounters == {0, TrialLimit - 1}

\* process_message on the request of worker w, run on other stored data
Rerun(w, table, used) ==
    process_message(clean_phone(req[w].from), req[w].message,
                    [Read(w) EXCEPT !.chat_used = used], table)

\* the text of the request reaches the double-booking query and the table
\* holds a pending or confirmed booking of the tenant for the parsed slot
SlotTaken(w, table) ==
    /\ InBooking(w) /\ Parsed(w) /\ parse_booking(Text(w)).ok
    /\ \E i \in 1..Len(table) :
          /\ table[i].business_id = Read(w).id
          /\ table[i].booking_date = parse_booking(Text(w)).date
          /\ table[i].booking_time = parse_booking(Text(w)).time
          /\ table[i].status \in {"pending", "confirmed"}

\* two runs return the same reply and the same next state
SameOutcome(r1, r2) ==
    r1.reply = r2.reply /\ r1.business.flow_state = r2.business.flow_state

(***************************************************************************)
(* C16 as claimed. Determinism: the reply and the next state of            *)
(* process_message are the same for the same conversation state, message   *)
(* and tenant industry, whatever the bookings and the counter in the       *)
(* store are.                                                              *)
(***************************************************************************)
C16_AsClaimed ==
    [][\A w \in Workers :
          (req[w].pc = "loaded" /\ Moves(w) /\ PassesGuardrail(w))
          => \A table \in OtherStores, used \in OtherCounters :
                SameOutcome(Rerun(w, table, used), req'[w].res)
      ]_vars

(***************************************************************************)
(* C16. Determinism: the reply and the next state of process_message are   *)
(* the same for the same conversation state, message and tenant, handled   *)
(* on the same day, whenever the double-booking query has the same answer  *)
(* (the slot the text asks for is held by a pending or confirmed booking   *)
(* of the tenant, or is not); the counter and all other bookings have no   *)
(* influence.                                                              *)
(***************************************************************************)
C16_Deterministic ==
    [][\A w \in Workers :
          (req[w].pc = "loaded" /\ Moves(w) /\ PassesGuardrail(w))
          => \A table \in OtherStores, used \in OtherCounters :
                (SlotTaken(w, table) = SlotTaken(w, bookings))
                => SameOutcome(Rerun(w, table, used), req'[w].res)
      ]_vars

\* a second booking was confirmed with another booking of the tenant in the
\* store and another counter, and the run on the empty store with the
\* counter 0 gives the same reply and next state
C16_Witness ==
    \E w \in Workers :
        /\ Answered(w)
        /\ req[w].business.flow_state = "booking"
        /\ req[w].reply.kind = "confirmed"
        /\ Len(bookings) = 2
        /\ req[w].business.chat_used # 0
        /\ SameOutcome(process_message(clean_phone(req[w].from), req[w].message,
                                       [req[w].business EXCEPT !.chat_used = 0], <<>>),
                       req[w].res)

\* the customers: the numbers of the senders, as process_message gets them
Customers == {clean_phone(from) : from \in Senders}

\* the conversation state process_message works on when customer writes to
\* the tenant: state = business.flow_state or "start", whoever the customer
StateFor(rows, id, customer) ==
    IF rows[id].flow_state = "" THEN "start" ELSE rows[id].flow_state

(***************************************************************************)
(* C17 as claimed. State per tenant and per customer: a message of one     *)
(* customer leaves the conversation state that applies to every other      *)
(* customer of the same tenant as it was.                                  *)
(***************************************************************************)
C17_AsClaimed ==
    [][\A w \in Workers :
          (Completes(w) /\ PassesGuardrail(w))
          => \A customer \in Customers \ {clean_phone(req[w].from)} :
                StateFor(businesses', Read(w).id, customer)
                   = StateFor(businesses, Read(w).id, customer)
      ]_vars

(***************************************************************************)
(* C17. State per tenant: the conversation state is one value on the       *)
(* tenant's row. A request changes a row only when the row's registered    *)
(* number is the sender's number; a sender with no tenant row gets the     *)
(* not-registered reply and changes nothing; and process_message gives the *)
(* same next state for the row whatever customer number it is called with. *)
(***************************************************************************)
C17_PerTenant ==
    [][\A w \in Workers :
          /\ (Moves(w) /\ businesses' # businesses)
             => /\ InFlight(w)
                /\ Read(w).whatsapp_number = clean_phone(req[w].from)
          /\ (Moves(w) /\ req'[w].reply = NotRegistered) => TablesUnchanged
          /\ (req[w].pc = "loaded" /\ Moves(w) /\ PassesGuardrail(w))
             => \A customer \in Customers :
                   process_message(customer, req[w].message, Read(w), bookings)
                      .business.flow_state
                   = req'[w].res.business.flow_state
      ]_vars

\* the tenant's own number opened a booking; the state booking is what a
\* message with any other customer number would be handled in
C17_Witness ==
    \E w \in Workers :
        /\ Answered(w)
        /\ req[w].reply.kind = "booking_prompt"
        /\ req[w].business.whatsapp_number = clean_phone(req[w].from)
        /\ businesses[req[w].business.id].flow_state = "booking"
        /\ \A customer \in Customers :
              process_message(customer, <<"c", "a", "n", "c", "e", "l">>,
                              businesses[req[w].business.id], bookings).reply.kind
              = "cancelled"

(***************************************************************************)
(* Two tenants in dialogue                                                 *)
(*                                                                         *)
(* The webhook with a sender for each of the two tenants, one request at a *)
(* time, so that both tenants have a conversation state, a counter and     *)
(* bookings of their own.                                                  *)
(***************************************************************************)

\* the From field of the messages: the number of each tenant
TenantSenders ==
    {<<"w", "h", "a", "t", "s", "a", "p", "p", ":", "+", "9", "1", "9", "8", "7", "6", "5", "4", "3", "2", "1", "0">>,
     <<"9", "1", "2", "3", "4", "5", "6", "7", "8", "0">>}

\* the Body field of the messages
TenantMessages ==
    {<<"1">>,
     <<"6">>,
     <<"c", "a", "n", "c", "e", "l">>,
     <<"1", "2", " ", "f", "e", "b", " ", "5", "p", "m", " ", "R", "a", "h", "u", "l">>,
     <<"1", "5", "/", "0", "3", " ", "1", "0", "a", "m", " ", "B", "o", "b">>}

\* the first tenant has Headroom chats left, the second one chat
TenantsInit ==
    /\ businesses = [id \in BizIds |->
          IF id = 1 THEN NewBusiness(1, TrialLimit - Headroom)
          ELSE NewBusiness(id, TrialLimit - 1)]
    /\ bookings = <<>>
    /\ req = [w \in Workers |-> Idle]

TenantsNext ==
    \/ \E from \in TenantSenders, message \in TenantMessages : Receive(1, from, message)
    \/ Blocked(1)
    \/ \E commitOk \in BOOLEAN : Process(1, commitOk)
    \/ \E commitOk \in BOOLEAN : Commit(1, commitOk)
    \/ Finish(1)

Tenants == TenantsInit /\ [][TenantsNext]_vars

\* the bookings of one tenant
OfTenant(table, id) == SelectSeq(table, LAMBDA b : b.business_id = id)

(***************************************************************************)
(* C18. No cross-tenant effect: a request handled for tenant A leaves the  *)
(* row (conversation state, usage counter) and the bookings of every other *)
(* tenant B as they were, and process_message gives it the same reply and  *)
(* the same changes when the bookings of the other tenants are taken out   *)
(* of the table.                                                           *)
(***************************************************************************)
C18_NoCrossTenant ==
    [][\A w \in Workers :
          /\ (InFlight(w) /\ Moves(w))
             => \A B \in BizIds \ {Read(w).id} :
                   /\ businesses'[B] = businesses[B]
                   /\ OfTenant(bookings', B) = OfTenant(bookings, B)
          /\ (req[w].pc = "loaded" /\ Moves(w) /\ PassesGuardrail(w))
             => process_message(clean_phone(req[w].from), req[w].message, Read(w),
                                OfTenant(bookings, Read(w).id))
                = req'[w].res
      ]_vars

\* the second tenant booked the slot that the first tenant's booking holds:
\* both rows are pending for 12-02-2026 17:00, one for each tenant
C18_Witness ==
    /\ Len(bookings) = 2
    /\ bookings[1].business_id = 1
    /\ bookings[2].business_id = 2
    /\ bookings[1].booking_date = bookings[2].booking_date
    /\ bookings[1].booking_time = bookings[2].booking_time
    /\ \E w \in Workers :
          /\ Answered(w)
          /\ req[w].business.id = 2
          /\ req[w].reply.kind = "confirmed"
          /\ businesses[1].flow_state = "booking"

\* messages that move a dialogue without using a chat of the tenant
ResumeMessages ==
    {<<"m", "e", "n", "u">>, <<"1">>, <<"6">>, <<"c", "a", "n", "c", "e", "l">>,
     <<"n", "o", "t", " ", "a", " ", "d", "a", "t", "e">>}

\* the states process_message stores for the tenant row in the states S on
\* one message of ResumeMessages, the counter and the bookings staying as
\* they are
After(row, table, S) ==
    {res.business.flow_state :
        res \in {r \in {process_message(row.whatsapp_number, m,
                                        [row EXCEPT !.flow_state = s], table) :
                           m \in ResumeMessages, s \in S} :
                    r.added = <<>> /\ r.business.chat_used = row.chat_used}}

\* the states the tenant row reaches from state s on one or two messages
Reach(row, table, s) ==
    After(row, table, {s}) \cup After(row, table, After(row, table, {s}))

(***************************************************************************)
(* C19. No terminal state: for every tenant that passes the guardrail, in  *)
(* every reachable state of the store, a finite sequence of messages leads *)
(* from its conversation state to menu, and from each of start, menu and   *)
(* booking to each of the three (here: on at most two messages that use no *)
(* chat, so that the tenant still passes the guardrail).                   *)
(***************************************************************************)
C19_Resumable ==
    \A id \in BizIds :
        (Guardrail(businesses[id]) = NoReply)
        => /\ "menu" \in Reach(businesses[id], bookings, businesses[id].flow_state)
           /\ \A s \in {"start", "menu", "booking"} :
                 Reach(businesses[id], bookings, s) = {"start", "menu", "booking"}

\* a tenant that made a booking (start, booking, menu) and then left with
\* the exit option is at start again, with a chat left and its booking stored
C19_Witness ==
    \E w \in Workers :
        /\ Answered(w)
        /\ req[w].reply.kind = "farewell"
        /\ businesses[req[w].business.id].flow_state = "start"
        /\ Guardrail(businesses[req[w].business.id]) = NoReply
        /\ Len(OfTenant(bookings, req[w].business.id)) = 1

(***************************************************************************)
(* Accounts                                                                *)
(*                                                                         *)
(* signup, update_settings and delete_user on the table of tenants. The    *)
(* rows are businesses[1..n] in the order of their ids. A signup is two    *)
(* steps (its query for an existing account, then db.add and db.commit),   *)
(* so two signups overlap; the unique constraints of the columns           *)
(* whatsapp_number and admin_email are checked by the database at commit.  *)
(***************************************************************************)

\* the tenants the table holds at most
MaxAccounts == 2

\* the phone field of the forms: one number in two spellings, and another
FormPhones ==
    {<<"+", "9", "1", " ", "9", "8", "7", "6", "5", " ", "4", "3", "2", "1", "0">>,
     <<"+", "9", "1", "-", "9", "8", "7", "6", "5", "-", "4", "3", "2", "1", "0">>,
     <<"9", "1", "2", "3", "4", "5", "6", "7", "8", "0">>}

\* the email field of the signup form
FormEmails ==
    {<<"G", "y", "m", "@", "d", "e", "m", "o", ".", "c", "o", "m", " ">>,
     <<"b", "i", "z", "@", "d", "e", "m", "o", ".", "c", "o", "m">>}

\* the name field of the settings form
FormNames == {<<"D", "e", "m", "o", " ", "<", "G", "y", "m", ">">>}

\* the address field of the settings form; <<>> is a form without it
FormAddresses == {<<>>, <<"M", "G", " ", "R", "o", "a", "d">>}

\* re.sub(r'[<>\'"]', '', text)
sanitize_input(text) == SelectSeq(text, LAMBDA c : c \notin {"<", ">", "'", "\""})

\* a database without the two unique constraints
NoConstraint(rows, id, number, email) == number = number /\ email = email

\* the database accepts the values number and email for the row id: no other
\* row holds the number (unique=True of whatsapp_number) or the email
\* (unique=True of admin_email)
Unique(rows, id, number, email) ==
    \A i \in 1..Len(rows) :
        (i # id) => rows[i].whatsapp_number # number /\ rows[i].admin_email # email

SignupError(text) == Reply("signup_error", <<text>>)

\* signup up to its query: the password check and the lookup of an account
\* with the email or the phone
SignupCheck(w, phone, email, passwordOk) ==
    /\ req[w].pc = "idle"
    /\ Len(businesses) + Cardinality({v \in Workers : req[v].pc = "checked"})
          < MaxAccounts
    /\ LET number == clean_phone(phone)
           address == Strip(Lower(email))
           existing == \E i \in 1..Len(businesses) :
                          \/ businesses[i].admin_email = address
                          \/ businesses[i].whatsapp_number = number
       IN  req' = [req EXCEPT ![w] =
                IF ~passwordOk
                THEN [Idle EXCEPT !.pc = "done", !.from = number, !.message = address,
                                  !.reply = SignupError("password")]
                ELSE IF existing
                THEN [Idle EXCEPT !.pc = "done", !.from = number, !.message = address,
                                  !.reply = SignupError("Email or phone already registered")]
                ELSE [Idle EXCEPT !.pc = "checked", !.from = number, !.message = address]]
    /\ UNCHANGED <<businesses, bookings>>

\* db.add(user); db.commit() of signup, and its except branches
SignupCommit(w, commitOk) ==
    /\ req[w].pc = "checked"
    /\ LET id == Len(businesses) + 1
       IN  IF ~Unique(businesses, id, req[w].from, req[w].message)
           THEN /\ req' = [req EXCEPT ![w].pc = "done",
                             ![w].reply = SignupError("An account with this email already exists")]
                /\ UNCHANGED businesses
           ELSE IF ~commitOk
           THEN /\ req' = [req EXCEPT ![w].pc = "done",
                             ![w].reply = SignupError("An error occurred. Please try again.")]
                /\ UNCHANGED businesses
           ELSE /\ businesses' = Append(businesses,
                       [NewBusiness(1, 0) EXCEPT !.id = id,
                                                 !.whatsapp_number = req[w].from,
                                                 !.admin_email = req[w].message])
                /\ req' = [req EXCEPT ![w].pc = "done",
                             ![w].business = businesses'[id],
                             ![w].reply = Reply("redirect", <<"/onboarding">>)]
    /\ UNCHANGED bookings

\* update_settings of the logged-in tenant id: the commit fails on the
\* unique constraint, and then nothing of the form is stored
UpdateSettings(id, name, whatsapp, business_address) ==
    /\ id \in 1..Len(businesses)
    /\ LET number == clean_phone(whatsapp)
       IN  IF Unique(businesses, id, number, businesses[id].admin_email)
           THEN businesses' = [businesses EXCEPT
                    ![id].name = sanitize_input(name),
                    ![id].whatsapp_number = number,
                    ![id].address = IF business_address # <<>>
                                    THEN sanitize_input(business_address) ELSE @]
           ELSE UNCHANGED businesses
    /\ UNCHANGED <<bookings, req>>

\* delete_user: the soft delete
DeleteUser(id) ==
    /\ id \in 1..Len(businesses)
    /\ LET number == <<"d", "e", "l", "e", "t", "e", "d", "_">> \o FmtInt(id)
           email == number \o <<"@", "d", "e", "l", "e", "t", "e", "d", ".", "c", "o", "m">>
       IN  IF Unique(businesses, id, number, email)
           THEN businesses' = [businesses EXCEPT ![id].is_active = FALSE,
                                                 ![id].admin_email = email,
                                                 ![id].whatsapp_number = number]
           ELSE UNCHANGED businesses
    /\ UNCHANGED <<bookings, req>>

AccountsInit ==
    /\ businesses = <<>>
    /\ bookings = <<>>
    /\ req = [w \in Workers |-> Idle]

AccountsNext ==
    \/ \E w \in Workers, phone \in FormPhones, email \in FormEmails, passwordOk \in BOOLEAN :
          SignupCheck(w, phone, email, passwordOk)
    \/ \E w \in Workers, commitOk \in BOOLEAN : SignupCommit(w, commitOk)
    \/ \E w \in Workers : Finish(w)
    \/ \E id \in 1..MaxAccounts, name \in FormNames, whatsapp \in FormPhones,
          business_address \in FormAddresses :
          UpdateSettings(id, name, whatsapp, business_address)
    \/ \E id \in 1..MaxAccounts : DeleteUser(id)

Accounts == AccountsInit /\ [][AccountsNext]_vars

(***************************************************************************)
(* C20. One tenant per contact address: in every state reached by signup,  *)
(* update_settings and delete_user, two signups with the same phone at the *)
(* same time included, no two rows of the table of tenants hold the same   *)
(* whatsapp_number.                                                        *)
(***************************************************************************)
C20_OneTenantPerAddress ==
    \A i, j \in 1..Len(businesses) :
        (i # j) => businesses[i].whatsapp_number # businesses[j].whatsapp_number

\* two signups with one phone number and two emails both passed the query
\* for an existing account; one is stored and the commit of the other was
\* refused by the database
C20_Witness ==
    \E w \in Workers, i \in 1..Len(businesses) :
        /\ req[w].pc = "done"
        /\ req[w].reply = SignupError("An account with this email already exists")
        /\ businesses[i].whatsapp_number = req[w].from
        /\ businesses[i].admin_email # req[w].message

(***************************************************************************)
(* Bookings and their status                                               *)
(*                                                                         *)
(* The dialogue of the two tenants together with cancel_booking and        *)
(* delete_user. The id of a booking is its position in the table.          *)
(***************************************************************************)

\* a cancel_booking that gives a cancelled booking back its pending status
CancelBookingRestores(user, booking_id, commitOk) ==
    /\ bookings' =
          IF booking_id \in 1..Len(bookings) /\ commitOk
          THEN [bookings EXCEPT ![booking_id].status =
                   IF bookings[booking_id].business_id # user THEN @
                   ELSE IF @ = "cancelled" THEN "pending" ELSE "cancelled"]
          ELSE bookings
    /\ UNCHANGED <<businesses, req>>

\* cancel_booking of the logged-in tenant user: the booking with the id
\* among the tenant's bookings gets the status cancelled; without such a
\* booking (404) or with a failing commit (500) nothing is stored
CancelBooking(user, booking_id, commitOk) ==
    /\ bookings' =
          IF booking_id \in 1..Len(bookings) /\ commitOk
          THEN [bookings EXCEPT ![booking_id].status =
                   IF bookings[booking_id].business_id # user THEN @ ELSE "cancelled"]
          ELSE bookings
    /\ UNCHANGED <<businesses, req>>

BookingsNext ==
    \/ TenantsNext
    \/ \E user \in BizIds, booking_id \in 1..MaxBookings, commitOk \in BOOLEAN :
          CancelBooking(user, booking_id, commitOk)
    \/ \E id \in BizIds : DeleteUser(id)

Bookings == TenantsInit /\ [][BookingsNext]_vars

(***************************************************************************)
(* C21. Booking status is one-directional: over the flow messages, the     *)
(* calls of cancel_booking and delete_user, every booking references a row *)
(* of the table of tenants; no booking is removed or given to another      *)
(* tenant; a booking whose status is not pending never becomes pending;    *)
(* and a pending booking stays pending or becomes cancelled.               *)
(***************************************************************************)
C21_StatusOneWay ==
    /\ [](\A i \in 1..Len(bookings) : bookings[i].business_id \in DOMAIN businesses)
    /\ [][/\ Len(bookings') >= Len(bookings)
          /\ \A i \in 1..Len(bookings) :
                /\ bookings'[i].business_id = bookings[i].business_id
                /\ (bookings[i].status # "pending") => bookings'[i].status # "pending"
                /\ (bookings[i].status = "pending")
                   => bookings'[i].status \in {"pending", "cancelled"}
         ]_vars

\* a tenant cancelled its booking, took the slot again with a new booking
\* and was then deleted: the cancelled and the pending booking both still
\* reference its row
C21_Witness ==
    \E i, j \in 1..Len(bookings) :
        /\ i < j
        /\ bookings[i].status = "cancelled"
        /\ bookings[j].status = "pending"
        /\ bookings[i].business_id = bookings[j].business_id
        /\ bookings[i].booking_date = bookings[j].booking_date
        /\ bookings[i].booking_time = bookings[j].booking_time
        /\ ~businesses[bookings[i].business_id].is_active

(***************************************************************************)
(* parse_booking on its own                                                *)
(*                                                                         *)
(* The texts are put together from a date part, a time part and a name     *)
(* part; the one step of the specification applies parse_booking to the    *)
(* text and keeps the result.                                              *)
(***************************************************************************)

\* the date parts: the five patterns, and texts that start with other words
ParseHeads ==
    {<<"1", "2", " ", "f", "e", "b">>,
     <<"5", " ", "M", "a", "r">>,
     <<"1", "5", "/", "0", "3">>,
     <<"7", "-", "1", "1">>,
     <<"3", "1", "/", "1", "2">>,
     <<"3", "/", "4">>,
     <<"t", "o", "m", "o", "r", "r", "o", "w">>,
     <<"t", "o", "d", "a", "y">>,
     <<"n", "e", "x", "t", " ", "m", "o", "n", "d", "a", "y">>,
     <<"s", "e", "e", " ", "y", "o", "u">>,
     <<"c", "a", "l", "l", " ", "1", "2", " ", "f", "e", "b">>}

\* the time parts
ParseTimes ==
    {<<"5", "p", "m">>,
     <<"1", "0", "A", "M">>,
     <<"1", "2", "a", "m">>,
     <<"1", "5", ":", "3", "0">>,
     <<"7">>,
     <<"9", ":", "0", "5", " ", "p", "m">>}

\* the name parts with the whitespace before them; <<>> is a text without a name
ParseNames ==
    {<<" ", "r", "a", "h", "u", "l">>,
     <<" ", "J", "o", "h", "n", " ", "D", "o", "e">>,
     <<" ", "a">>,
     <<" ", " ", "9">>,
     <<" ", "j", "o", "h", "n", " ", " ", "d", "o", "e">>,
     <<>>}

\* texts without a date, or without a time
ShortTexts ==
    {<<>>,
     <<"h", "i">>,
     <<"1", "5", "/", "0", "3">>,
     <<"n", "o", "t", " ", "a", " ", "d", "a", "t", "e">>}

\* the date part, a blank, the time part, the name part
Compose(head, time, name) == head \o <<" ">> \o time \o name

ParseTexts ==
    {Compose(head, time, name) :
        head \in ParseHeads, time \in ParseTimes, name \in ParseNames}
    \cup ShortTexts

ParsingInit ==
    /\ businesses = [id \in BizIds |-> NewBusiness(id, 0)]
    /\ bookings = <<>>
    /\ \E text \in ParseTexts :
          req = [w \in Workers |-> IF w = 1 THEN [Idle EXCEPT !.message = text] ELSE Idle]

\* booking_data = WhatsAppBot.parse_booking(message)
ParseText ==
    /\ req[1].pc = "idle"
    /\ req' = [req EXCEPT ![1].pc = "done", ![1].res = parse_booking(req[1].message)]
    /\ UNCHANGED <<businesses, bookings>>

ParsingNext == ParseText

Parsing == ParsingInit /\ [][ParsingNext]_vars

\* parse_booking has returned; its argument and its result
ParseDone == req[1].pc = "done"

ParseInput == req[1].message

ParseResult == req[1].res

(***************************************************************************)
(* C22. Parser totality: parse_booking returns either the failure signal   *)
(* or a result whose date, time and name are all non-empty.                *)
(***************************************************************************)
C22_CompleteResult ==
    (ParseDone /\ ParseResult.ok)
    => /\ ParseResult.date # <<>>
       /\ ParseResult.time # <<>>
       /\ ParseResult.name # <<>>

\* the time parts of ParseTimes on the 24-hour clock, zero-padded
Time24 ==
    (<<"5", "p", "m">> :> <<"1", "7", ":", "0", "0">>)
    @@ (<<"1", "0", "A", "M">> :> <<"1", "0", ":", "0", "0">>)
    @@ (<<"1", "2", "a", "m">> :> <<"0", "0", ":", "0", "0">>)
    @@ (<<"1", "5", ":", "3", "0">> :> <<"1", "5", ":", "3", "0">>)
    @@ (<<"7">> :> <<"0", "7", ":", "0", "0">>)
    @@ (<<"9", ":", "0", "5", " ", "p", "m">> :> <<"2", "1", ":", "0", "5">>)

\* the time parts of ParseTimes that have am or pm, in the form <H or HH>:<MM><AM|PM>
TimeAmPm ==
    (<<"5", "p", "m">> :> <<"5", ":", "0", "0", "P", "M">>)
    @@ (<<"1", "0", "A", "M">> :> <<"1", "0", ":", "0", "0", "A", "M">>)
    @@ (<<"1", "2", "a", "m">> :> <<"1", "2", ":", "0", "0", "A", "M">>)
    @@ (<<"9", ":", "0", "5", " ", "p", "m">> :> <<"9", ":", "0", "5", "P", "M">>)

\* the date parts of the patterns with a day and a month
FullDateHeads == {head \in ParseHeads : \E i \in 1..Len(head) : head[i] \in DigitSet}

\* the day of such a date part: its first run of digits
DayOf(head) ==
    LET first == SetMin({i \in 1..Len(head) : head[i] \in DigitSet})
    IN  IF first < Len(head) /\ head[first + 1] \in DigitSet
        THEN SubSeq(head, first, first + 1)
        ELSE SubSeq(head, first, first)

\* DD-MM-YYYY
IsDate(date) ==
    /\ Len(date) = 10
    /\ \A i \in 1..10 : IF i \in {3, 6} THEN date[i] = "-" ELSE date[i] \in DigitSet

\* HH:MM
IsTime(time) ==
    /\ Len(time) = 5
    /\ \A i \in 1..5 : IF i = 3 THEN time[i] = ":" ELSE time[i] \in DigitSet

(***************************************************************************)
(* C23 as claimed. Parser output format: for a text of a supported         *)
(* grammar whose time has am or pm, the date of the result is zero-padded  *)
(* DD-MM-YYYY and the time keeps the am/pm convention, uppercase, with the *)
(* minutes 00 when the text has none (5pm gives 5:00PM).                   *)
(***************************************************************************)
C23_AsClaimed ==
    \A head \in FullDateHeads, time \in DOMAIN TimeAmPm, name \in ParseNames \ {<<>>} :
        (ParseDone /\ ParseInput = Compose(head, time, name) /\ ParseResult.ok)
        => /\ IsDate(ParseResult.date)
           /\ ParseResult.time = TimeAmPm[time]

(***************************************************************************)
(* C23. Parser output format: every result has a date of the form          *)
(* DD-MM-YYYY and a time of the form HH:MM; for a text with a day and a    *)
(* month the date has the zero-padded day of the text and the current      *)
(* year; the time is the time of the text on the 24-hour clock,            *)
(* zero-padded, with the minutes 00 when the text has none. The text       *)
(* 12 feb 5pm rahul gives 12-02-<current year>, 17:00, Rahul.              *)
(***************************************************************************)
C23_OutputFormat ==
    (ParseDone /\ ParseResult.ok)
    => /\ IsDate(ParseResult.date)
       /\ IsTime(ParseResult.time)
       /\ \A head \in ParseHeads, time \in ParseTimes, name \in ParseNames \ {<<>>} :
             (ParseInput = Compose(head, time, name))
             => /\ ParseResult.time = Time24[time]
                /\ (head \in FullDateHeads)
                   => /\ SubSeq(ParseResult.date, 1, 2) = ZFill2(DayOf(head))
                      /\ SubSeq(ParseResult.date, 7, 10) = Fmt4(Today.year)
       /\ (ParseInput = <<"1", "2", " ", "f", "e", "b", " ", "5", "p", "m", " ", "r", "a", "h", "u", "l">>)
          => /\ ParseResult.date = <<"1", "2", "-", "0", "2", "-">> \o Fmt4(Today.year)
             /\ ParseResult.time = <<"1", "7", ":", "0", "0">>
             /\ ParseResult.name = <<"R", "a", "h", "u", "l">>

\* 12 feb 5pm rahul was parsed: the time of the result is 17:00
C23_Witness ==
    /\ ParseDone
    /\ ParseInput = <<"1", "2", " ", "f", "e", "b", " ", "5", "p", "m", " ", "r", "a", "h", "u", "l">>
    /\ ParseResult.ok
    /\ ParseResult.time = <<"1", "7", ":", "0", "0">>
    /\ ParseResult.name = <<"R", "a", "h", "u", "l">>

\* the day and the month that the date parts with a day and a month name:
\* DD/MM and DD-MM keep the month, DD <month> has the month of the table
DayMonth ==
    (<<"1", "2", " ", "f", "e", "b">> :> <<"1", "2", "-", "0", "2", "-">>)
    @@ (<<"5", " ", "M", "a", "r">> :> <<"0", "5", "-", "0", "3", "-">>)
    @@ (<<"c", "a", "l", "l", " ", "1", "2", " ", "f", "e", "b">> :> <<"1", "2", "-", "0", "2", "-">>)
    @@ (<<"1", "5", "/", "0", "3">> :> <<"1", "5", "-", "0", "3", "-">>)
    @@ (<<"7", "-", "1", "1">> :> <<"0", "7", "-", "1", "1", "-">>)
    @@ (<<"3", "1", "/", "1", "2">> :> <<"3", "1", "-", "1", "2", "-">>)
    @@ (<<"3", "/", "4">> :> <<"0", "3", "-", "0", "4", "-">>)

(***************************************************************************)
(* C24. Month mapping: a text of the numeric grammar DD/MM or DD-MM gives  *)
(* a date with the zero-padded month MM of the text, and a text of the     *)
(* grammar DD <month> gives the month of the abbreviation table (jan 01    *)
(* ... dec 12), each with the zero-padded day and the current year.        *)
(***************************************************************************)
C24_MonthKept ==
    \A head \in FullDateHeads, time \in ParseTimes, name \in ParseNames :
        (ParseDone /\ ParseInput = Compose(head, time, name) /\ ParseResult.ok)
        => ParseResult.date = DayMonth[head] \o Fmt4(Today.year)

\* len(text.split()): the number of whitespace-separated tokens
TokenCount(text) ==
    Cardinality({i \in 1..Len(text) :
                    /\ text[i] \notin Whitespace
                    /\ (i = 1 \/ text[i - 1] \in Whitespace)})

\* the date part of each pattern: what precedes the time and the name
DateParts ==
    [k \in 1..Len(patterns) |-> SubSeq(patterns[k], 1, Len(patterns[k]) - Len(TimeName))]

\* the text begins with a DD/MM pair or with DD followed by a month
\* abbreviation
StartsWithDate(text) ==
    \E k \in {1, 2} : Match(DateParts[k], 1, Strip(Lower(text)), 1, NoGroups, Enter).ok

\* the date part of one of the five patterns occurs somewhere in the text
HasDatePart(text) ==
    \E k \in 1..Len(patterns) : SearchFrom(DateParts[k], Strip(Lower(text)), 1).ok

(***************************************************************************)
(* C25 as claimed. Parse-failure closure: a text with fewer than three     *)
(* whitespace-separated tokens, or one that begins neither with a DD/MM    *)
(* pair nor with DD followed by a month abbreviation, gives the            *)
(* parse-failure signal.                                                   *)
(***************************************************************************)
C25_AsClaimed ==
    (ParseDone /\ (TokenCount(ParseInput) < 3 \/ ~StartsWithDate(ParseInput)))
    => ~ParseResult.ok

(***************************************************************************)
(* C25. Parse-failure closure: a text with fewer than three                *)
(* whitespace-separated tokens, or one in which the date part of none of   *)
(* the five patterns occurs (DD/MM or DD-MM, DD <month abbreviation>,      *)
(* tomorrow, today, next <weekday>), gives the parse-failure signal.       *)
(***************************************************************************)
C25_FailureClosure ==
    (ParseDone /\ (TokenCount(ParseInput) < 3 \/ ~HasDatePart(ParseInput)))
    => ~ParseResult.ok

\* a text of two tokens that begins with a date was parsed, and a text of
\* more than two tokens without a date part: both give the failure signal
C25_Witness ==
    /\ ParseDone
    /\ ~ParseResult.ok
    /\ \/ TokenCount(ParseInput) = 2 /\ StartsWithDate(ParseInput)
       \/ TokenCount(ParseInput) > 2 /\ ~HasDatePart(ParseInput)

\* the words of a text joined by one blank each
RECURSIVE SingleSpaced(_)
SingleSpaced(text) ==
    IF text = <<>> THEN <<>>
    ELSE IF text[1] \in Whitespace
    THEN IF Len(text) = 1 \/ text[2] \in Whitespace \/ Tail(text) = <<>>
         THEN SingleSpaced(Tail(text))
         ELSE <<" ">> \o SingleSpaced(Tail(text))
    ELSE <<text[1]>> \o SingleSpaced(Tail(text))

(***************************************************************************)
(* C26. Name extraction: the name of a result is the rest of the text      *)
(* after the time, its words joined by single blanks and title-cased, and  *)
(* it has at least two characters: a shorter name is a parse failure.      *)
(***************************************************************************)
C26_NameExtraction ==
    (ParseDone /\ ParseResult.ok)
    => /\ Len(ParseResult.name) >= 2
       /\ \A head \in ParseHeads, time \in ParseTimes, name \in ParseNames \ {<<>>} :
             (ParseInput = Compose(head, time, name))
             => ParseResult.name = Title(Strip(SingleSpaced(name)))


(***************************************************************************)
(* clean_phone on its own: the specification Phones applies it to the      *)
(* spellings of a few numbers                                              *)
(***************************************************************************)

\* ten-digit numbers
PhoneLocals == {<<"9", "8", "7", "6", "5", "4", "3", "2", "1", "0">>, <<"9", "1", "2", "3", "4", "5", "6", "7", "8", "9">>, <<"8", "0", "0", "0", "0", "0", "0", "0", "0", "1">>}

\* what may precede the number, and what may separate its groups of digits
PhonePrefixes == {<<>>, <<"w", "h", "a", "t", "s", "a", "p", "p", ":">>}

PhonePluses == {<<>>, <<"+">>}

PhoneCodes == {<<>>, <<"9", "1">>}

PhoneSeparators == {<<>>, <<" ">>, <<"-">>}

\* one spelling of the number local
Spelling(prefix, plus, code, sep, local) ==
    prefix \o plus \o code \o (IF code = <<>> THEN <<>> ELSE sep)
        \o SubSeq(local, 1, 5) \o sep \o SubSeq(local, 6, 10)

PhoneSpellings ==
    {Spelling(prefix, plus, code, sep, local) :
        prefix \in PhonePrefixes, plus \in PhonePluses, code \in PhoneCodes,
        sep \in PhoneSeparators, local \in PhoneLocals}
    \cup {<<>>}

PhonesInit ==
    /\ businesses = [id \in BizIds |-> NewBusiness(id, 0)]
    /\ bookings = <<>>
    /\ \E raw_phone \in PhoneSpellings :
          req = [w \in Workers |-> IF w = 1 THEN [Idle EXCEPT !.from = raw_phone] ELSE Idle]

\* phone = WhatsAppBot.clean_phone(raw_phone)
CleanPhone ==
    /\ req[1].pc = "idle"
    /\ req' = [req EXCEPT ![1].pc = "done", ![1].res = clean_phone(req[1].from)]
    /\ UNCHANGED <<businesses, bookings>>

PhonesNext == CleanPhone

Phones == PhonesInit /\ [][PhonesNext]_vars

\* clean_phone has returned; its argument and its result
PhoneDone == req[1].pc = "done"

RawPhone == req[1].from

CleanedPhone == req[1].res

\* the digits of a spelling, in order
DigitsOf(phone) == SelectSeq(phone, LAMBDA c : c \in DigitSet)

(***************************************************************************)
(* C27. Phone normalization: the result of clean_phone has digits only; a  *)
(* number of ten digits is prefixed with 91; two spellings of the same     *)
(* number (with or without whatsapp:, +, blanks, dashes) have the same     *)
(* result.                                                                 *)
(***************************************************************************)
C27_Normalized ==
    PhoneDone
    => /\ \A i \in 1..Len(CleanedPhone) : CleanedPhone[i] \in DigitSet
       /\ (Len(DigitsOf(RawPhone)) = 10) => (CleanedPhone = <<"9", "1">> \o DigitsOf(RawPhone))
       /\ \A other \in PhoneSpellings :
             (DigitsOf(other) = DigitsOf(RawPhone)) => (clean_phone(other) = CleanedPhone)


(***************************************************************************)
(* Rows with a conversation state that process_message did not write       *)
(***************************************************************************)

\* the values of the column flow_state (String(50), nullable) in a stored
\* row: the three states, no value (NULL or the empty string), and a value
\* that is none of the three
StoredStates == FlowStates \cup {"", "paused"}

\* the first tenant's row has any of these values, the rest is TenantsInit
StoredInit ==
    /\ \E state \in StoredStates :
          businesses = [id \in BizIds |->
              IF id = 1
              THEN [NewBusiness(1, TrialLimit - Headroom) EXCEPT !.flow_state = state]
              ELSE NewBusiness(id, TrialLimit - 1)]
    /\ bookings = <<>>
    /\ req = [w \in Workers |-> Idle]

StoredNext == TenantsNext

Stored == StoredInit /\ [][StoredNext]_vars

\* process_message on the row the request read, with state in place of its
\* conversation state
HandledAs(w, state) ==
    process_message(clean_phone(req[w].from), req[w].message,
                    [Read(w) EXCEPT !.flow_state = state], bookings)

\* two results with the same reply, the same assignments and the same
\* Booking rows
SameEffect(r1, r2) ==
    /\ r1.reply = r2.reply
    /\ r1.added = r2.added
    /\ r1.commit = r2.commit
    /\ r1.dirty = r2.dirty
    /\ \A col \in r1.dirty : r1.business[col] = r2.business[col]

(***************************************************************************)
(* C28. Conversation state domain: no step takes the stored state of a     *)
(* tenant out of {start, menu, booking}, and every value that is written   *)
(* is one of the three, so from the initial state start the stored state   *)
(* stays within the set; a request that read no stored state is handled as *)
(* one that read start (same reply, same assignments, same bookings); a    *)
(* request that read an unrecognized state adds no booking, and unless its *)
(* commit fails it stores menu and replies with the menu of the tenant.    *)
(***************************************************************************)
C28_StateDomain ==
    /\ [][\A id \in BizIds :
             /\ (businesses[id].flow_state \in FlowStates)
                => (businesses'[id].flow_state \in FlowStates)
             /\ (businesses'[id].flow_state # businesses[id].flow_state)
                => (businesses'[id].flow_state \in FlowStates)
         ]_vars
    /\ [][\A w \in Workers :
             (req[w].pc = "loaded" /\ Moves(w) /\ PassesGuardrail(w)
                /\ Read(w).flow_state = "")
             => SameEffect(req'[w].res, HandledAs(w, "start"))
         ]_vars
    /\ [][\A w \in Workers :
             (req[w].pc = "loaded" /\ Moves(w) /\ PassesGuardrail(w)
                /\ Read(w).flow_state \notin FlowStates \cup {""})
             => /\ req'[w].pc = "done"
                /\ req'[w].res.added = <<>>
                /\ bookings' = bookings
                /\ NoException(w)
                   => /\ req'[w].reply = get_industry_menu(Read(w))
                      /\ businesses'[Read(w).id].flow_state = "menu"
         ]_vars

\* a request that read an unrecognized state has stored menu and holds the
\* menu as its reply
C28_Witness ==
    \E w \in Workers :
        /\ req[w].pc = "done"
        /\ req[w].business.flow_state = "paused"
        /\ req[w].message \notin ResetWords
        /\ req[w].reply = get_industry_menu(req[w].business)
        /\ businesses[req[w].business.id].flow_state = "menu"
        /\ bookings = <<>>


(***************************************************************************)
(* C29. Usage accounting: in every step, also with two requests of one     *)
(* tenant handled at the same time, the usage counter of a tenant grows by *)
(* exactly the number of bookings the step adds for the tenant (one at the *)
(* creation of a booking, none anywhere else), so the counter is its       *)
(* initial value plus the number of bookings created for the tenant; and   *)
(* it never exceeds chat_limit.                                            *)
(***************************************************************************)
C29_CounterMatches ==
    /\ [](\A id \in BizIds : businesses[id].chat_used <= businesses[id].chat_limit)
    /\ [][\A id \in BizIds :
             businesses'[id].chat_used - businesses[id].chat_used
                = Len(OfTenant(bookings', id)) - Len(OfTenant(bookings, id))
         ]_vars


(***************************************************************************)
(* payment_success and the guardrail                                       *)
(*                                                                         *)
(* Of payment_success the model has what it stores in the row of the       *)
(* logged-in tenant: plan and chat_limit. The signature check and the      *)
(* order are the gateway's; the Payment row and the audit log go to tables *)
(* no handler of the model reads.                                          *)
(***************************************************************************)

Starter == <<"s", "t", "a", "r", "t", "e", "r">>

Pro == <<"p", "r", "o">>

Enterprise == <<"e", "n", "t", "e", "r", "p", "r", "i", "s", "e">>

\* PLANS: the price in rupees and the chats of each plan
PLANS ==
    (Starter :> [price |-> 999, chats |-> 300])
    @@ (Pro :> [price |-> 2499, chats |-> 999999])
    @@ (Enterprise :> [price |-> 9999, chats |-> Unlimited])

\* notes.get('plan', 'pro') of the order: a plan, or a note that names none
OrderPlans == DOMAIN PLANS \cup {<<>>}

\* order['amount'] in paise
OrderAmounts == {PLANS[plan].price * 100 : plan \in DOMAIN PLANS}

\* payment_success of the logged-in tenant user. verified: the signature is
\* accepted and the order is fetched; commitOk: db.commit() succeeds (for
\* enterprise a database with typed columns rejects the string). A request
\* that fails stores nothing and answers with status error.
PaymentSuccess(user, note, amount_paid, verified, commitOk) ==
    /\ user \in DOMAIN businesses
    /\ LET plan == IF note \in DOMAIN PLANS THEN note
                   ELSE IF amount_paid = PLANS[Starter].price * 100 THEN Starter
                   ELSE Pro
       IN  IF verified /\ commitOk
           THEN businesses' = [businesses EXCEPT ![user].plan = plan,
                                                 ![user].chat_limit = PLANS[plan].chats]
           ELSE UNCHANGED businesses
    /\ UNCHANGED <<bookings, req>>

\* the tenants that are logged in and pay
Payers == {1}

\* the first tenant has used up the chats of the trial, the second has one
\* chat left
PaymentsInit ==
    /\ businesses = [id \in BizIds |->
          IF id = 1 THEN NewBusiness(1, TrialLimit)
          ELSE NewBusiness(id, TrialLimit - 1)]
    /\ bookings = <<>>
    /\ req = [w \in Workers |-> Idle]

PaymentsNext ==
    \/ TenantsNext
    \/ \E user \in Payers, note \in OrderPlans, amount_paid \in OrderAmounts,
          verified \in BOOLEAN, commitOk \in BOOLEAN :
          PaymentSuccess(user, note, amount_paid, verified, commitOk)

Payments == PaymentsInit /\ [][PaymentsNext]_vars

(***************************************************************************)
(* C30. Upgrade lifts the limit block: when an active tenant that is       *)
(* blocked by the limit (chat_used >= chat_limit) gets another plan by a   *)
(* successful payment_success, the plan is one of PLANS, chat_limit is the *)
(* chats of that plan, and the guardrail lets the next inbound message of  *)
(* the tenant through to process_message.                                  *)
(***************************************************************************)
C30_UpgradeUnblocks ==
    [][\A id \in BizIds :
          (/\ businesses[id].is_active
           /\ businesses[id].chat_limit # Unlimited
           /\ businesses[id].chat_used >= businesses[id].chat_limit
           /\ businesses'[id].plan # businesses[id].plan)
          => /\ businesses'[id].plan \in DOMAIN PLANS
             /\ businesses'[id].chat_limit = PLANS[businesses'[id].plan].chats
             /\ Guardrail(businesses'[id]) = NoReply
      ]_vars

=============================================================================
